---- MODULE Spec2Model ----
(***************************************************************************)
(* Hierarchy repair of the employees table (backend/eda/clean_parse_data). *)
(* The store is the SQLite table `employees`, keyed by employee_id.  A run *)
(* of main() executes four passes over it, each followed by a commit:      *)
(* validate links, recompute tenure, fill manager_id, fill supervisor_id.  *)
(***************************************************************************)
EXTENDS Integers, Sequences, FiniteSets, TLC

(***************************************************************************)
(* Bounds of the model.                                                    *)
(***************************************************************************)
\* number of rows of the employees table
NumEmployees == 4

(***************************************************************************)
(* Values.                                                                 *)
(***************************************************************************)
\* Python None / SQL NULL in an integer column (employee ids are >= 1)
NoId == 0

\* SQL NULL in a text column (parse_text stores None for an empty cell)
NullText == "<null>"

\* the apex job level: update_employees_manager_id skips it
ApexLevel == 5

\* the level update_employees_supervisor_id skips
NoSupervisorLevel == 4

\* level offsets of the two kinds of leader
ManagerOffset == 1
SupervisorOffset == 2

EmployeeIds == 1..NumEmployees

\* job levels of the input stores: the three behaviours of the passes
\* (ordinary, no supervisor, apex) are those of levels 3, 4 and 5
JobLevels == (ApexLevel - 2)..ApexLevel

\* department, region, location of an input row: a tier-1, a tier-2 and a
\* tier-3 neighbour of the first one, and a row of another department
Profiles ==
    << [department |-> "Eng",   region |-> "NA", location |-> "NY"],
       [department |-> "Eng",   region |-> "NA", location |-> "SF"],
       [department |-> "Eng",   region |-> "EU", location |-> "NY"],
       [department |-> "Sales", region |-> "NA", location |-> "NY"] >>

Departments == {Profiles[k].department : k \in DOMAIN Profiles}
Regions     == {Profiles[k].region : k \in DOMAIN Profiles}
Locations   == {Profiles[k].location : k \in DOMAIN Profiles}

(***************************************************************************)
(* Date text.  A cell of joining_date / exit_date is a text: a sequence of *)
(* characters, or SQL NULL.                                                *)
(***************************************************************************)
\* Python None / SQL NULL in a date column: no text has this element
NullDate == << "None" >>

Digits == "0" :> 0 @@ "1" :> 1 @@ "2" :> 2 @@ "3" :> 3 @@ "4" :> 4 @@
          "5" :> 5 @@ "6" :> 6 @@ "7" :> 7 @@ "8" :> 8 @@ "9" :> 9

DigitChars == << "0", "1", "2", "3", "4", "5", "6", "7", "8", "9" >>

RECURSIVE Num(_)
\* the decimal digits of n >= 0, without padding
Num(n) ==
    IF n < 10 THEN << DigitChars[n + 1] >>
    ELSE Num(n \div 10) \o << DigitChars[(n % 10) + 1] >>

\* n in two digits (%m, %d of strftime) and in four
Pad2(n) == IF n < 10 THEN << "0" >> \o Num(n) ELSE Num(n)

Pad4(n) ==
    IF n < 10 THEN << "0", "0", "0" >> \o Num(n)
    ELSE IF n < 100 THEN << "0", "0" >> \o Num(n)
    ELSE IF n < 1000 THEN << "0" >> \o Num(n)
    ELSE Num(n)

\* the date a text denotes; NoDate when strptime raises ValueError
NoDate == [y |-> 0, m |-> 0, d |-> 0]

\* the formats parse_date tries, in its order: the separator and the fields
FmtIso      == [sep |-> "-", order |-> << "Y", "m", "d" >>]
FmtUs       == [sep |-> "/", order |-> << "m", "d", "Y" >>]
FmtEu       == [sep |-> "-", order |-> << "d", "m", "Y" >>]
FmtIsoSlash == [sep |-> "/", order |-> << "Y", "m", "d" >>]

Formats == << FmtIso, FmtUs, FmtEu, FmtIsoSlash >>

\* the regular expressions of _strptime for %Y, %m and %d:
\*   \d\d\d\d     1[0-2]|0[1-9]|[1-9]     3[0-1]|[1-2]\d|0[1-9]|[1-9]| [1-9]
FieldMatches(f, directive) ==
    IF directive = "Y"
    THEN Len(f) = 4 /\ \A k \in 1..4 : f[k] \in DOMAIN Digits
    ELSE IF directive = "m"
    THEN \/ Len(f) = 2 /\ f[1] = "1" /\ f[2] \in {"0", "1", "2"}
         \/ Len(f) = 2 /\ f[1] = "0" /\ f[2] \in DOMAIN Digits /\ f[2] # "0"
         \/ Len(f) = 1 /\ f[1] \in DOMAIN Digits /\ f[1] # "0"
    ELSE \/ Len(f) = 2 /\ f[1] = "3" /\ f[2] \in {"0", "1"}
         \/ Len(f) = 2 /\ f[1] \in {"1", "2"} /\ f[2] \in DOMAIN Digits
         \/ Len(f) = 2 /\ f[1] \in {"0", " "} /\ f[2] \in DOMAIN Digits /\ f[2] # "0"
         \/ Len(f) = 1 /\ f[1] \in DOMAIN Digits /\ f[1] # "0"

RECURSIVE FieldValue(_)
\* int() of a matched field
FieldValue(f) ==
    IF f = << >> THEN 0
    ELSE LET last == f[Len(f)]
         IN  10 * FieldValue(SubSeq(f, 1, Len(f) - 1))
                 + (IF last = " " THEN 0 ELSE Digits[last])

IsLeap(yy) == yy % 4 = 0 /\ (yy % 100 # 0 \/ yy % 400 = 0)

DaysInMonth(yy, mm) ==
    IF mm = 2 THEN (IF IsLeap(yy) THEN 29 ELSE 28)
    ELSE IF mm \in {4, 6, 9, 11} THEN 30 ELSE 31

\* datetime.strptime(s, fmt): the text is three fields around two
\* separators, each field matches its directive, and the date exists
\* (datetime has no year 0)
strptime(s, fmt) ==
    LET seps == {k \in 1..Len(s) : s[k] = fmt.sep}
    IN  IF Cardinality(seps) # 2 THEN NoDate
        ELSE LET p1 == CHOOSE k \in seps : \A j \in seps : k <= j
                 p2 == CHOOSE k \in seps : \A j \in seps : k >= j
                 f  == << SubSeq(s, 1, p1 - 1), SubSeq(s, p1 + 1, p2 - 1),
                          SubSeq(s, p2 + 1, Len(s)) >>
             IN  IF \E k \in 1..3 : ~FieldMatches(f[k], fmt.order[k]) THEN NoDate
                 ELSE LET at(directive) ==
                              FieldValue(f[CHOOSE k \in 1..3 : fmt.order[k] = directive])
                          yy == at("Y")
                          mm == at("m")
                          dd == at("d")
                      IN  IF yy >= 1 /\ dd <= DaysInMonth(yy, mm)
                          THEN [y |-> yy, m |-> mm, d |-> dd]
                          ELSE NoDate

\* dt.strftime('%Y-%m-%d'): %m and %d are two digits; %Y is the year as the
\* C library prints it, which does not pad a year below 1000
strftime(dt) == Num(dt.y) \o << "-" >> \o Pad2(dt.m) \o << "-" >> \o Pad2(dt.d)

RECURSIVE LStrip(_)
LStrip(s) == IF s # << >> /\ s[1] = " " THEN LStrip(Tail(s)) ELSE s

RECURSIVE RStrip(_)
RStrip(s) ==
    IF s # << >> /\ s[Len(s)] = " " THEN RStrip(SubSeq(s, 1, Len(s) - 1)) ELSE s

\* str.strip(): the text without its leading and trailing blanks
Strip(s) == RStrip(LStrip(s))

Capitals == "n" :> "N" @@ "a" :> "A" @@ "u" :> "U" @@ "l" :> "L" @@
            "o" :> "O" @@ "e" :> "E"

\* str.upper()
Upper(s) == [k \in 1..Len(s) |-> IF s[k] \in DOMAIN Capitals THEN Capitals[s[k]] ELSE s[k]]

\* the texts parse_date takes for no date
NaTokens == { << "N", "A" >>, << "N", "/", "A" >>,
              << "N", "U", "L", "L" >>, << "N", "O", "N", "E" >> }

\* the text of a date written in a format: the texts of the input stores
\*   ISO       2020-01-31          US        01/31/2020
\*   EU        31-01-2020          ISOSLASH  2020/01/31
\*   ISOTAIL   2020-01-31T00:00    SPACED    2020-01- 5 00:00 (day below 10)
\*   NA        NA                  JUNK      soon
\*   NULL      SQL NULL
MkDate(f, yy, mm, dd) ==
    LET dash == << "-" >>
        slash == << "/" >>
    IN  IF f = "ISO" THEN Pad4(yy) \o dash \o Pad2(mm) \o dash \o Pad2(dd)
        ELSE IF f = "US" THEN Pad2(mm) \o slash \o Pad2(dd) \o slash \o Pad4(yy)
        ELSE IF f = "EU" THEN Pad2(dd) \o dash \o Pad2(mm) \o dash \o Pad4(yy)
        ELSE IF f = "ISOSLASH" THEN Pad4(yy) \o slash \o Pad2(mm) \o slash \o Pad2(dd)
        ELSE IF f = "ISOTAIL"
             THEN Pad4(yy) \o dash \o Pad2(mm) \o dash \o Pad2(dd)
                      \o << "T", "0", "0", ":", "0", "0" >>
        ELSE IF f = "SPACED"
             THEN Pad4(yy) \o dash \o Pad2(mm) \o dash \o << " " >> \o Num(dd)
                      \o << " ", "0", "0", ":", "0", "0" >>
        ELSE IF f = "NA" THEN << "N", "A" >>
        ELSE IF f = "JUNK" THEN << "s", "o", "o", "n" >>
        ELSE NullDate

\* date.today(), held fixed
Today == [y |-> 2024, m |-> 1, d |-> 1]

\* parse_date of update_employees_tenure: the loop over the formats returns
\* at the first one that parses
parse_date(value) ==
    IF value = NullDate THEN NullDate
    ELSE LET s  == Strip(value)
             d1 == strptime(s, Formats[1])
             d2 == strptime(s, Formats[2])
             d3 == strptime(s, Formats[3])
             d4 == strptime(s, Formats[4])
         IN  IF s = << >> \/ Upper(s) \in NaTokens THEN NullDate
             ELSE IF d1 # NoDate THEN strftime(d1)
             ELSE IF d2 # NoDate THEN strftime(d2)
             ELSE IF d3 # NoDate THEN strftime(d3)
             ELSE IF d4 # NoDate THEN strftime(d4)
             ELSE IF Len(s) >= 10 /\ strptime(SubSeq(s, 1, 10), FmtIso) # NoDate
             THEN SubSeq(s, 1, 10)
             ELSE NullDate

\* date.toordinal up to a constant: days since 0000-03-01 (proleptic Gregorian)
DaysFromCivil(yy, mm, dd) ==
    LET y1  == IF mm <= 2 THEN yy - 1 ELSE yy
        era == y1 \div 400
        yoe == y1 - era * 400
        mp  == IF mm > 2 THEN mm - 3 ELSE mm + 9
        doy == (153 * mp + 2) \div 5 + dd - 1
        doe == yoe * 365 + yoe \div 4 - yoe \div 100 + doy
    IN  era * 146097 + doe

\* round(days / 365.25, 2) in hundredths of a year, that is days * 400 / 1461
\* rounded; the quotient is never half way between two integers, so the
\* rounding mode plays no part (1461 days are taken out first to keep the
\* products small)
RoundTenure(days) ==
    LET n == IF days >= 0 THEN days ELSE 0 - days
        h == (n \div 1461) * 400 + ((n % 1461) * 800 + 1461) \div 2922
    IN  IF days >= 0 THEN h ELSE 0 - h

\* compute_tenure raises: strptime(None, ...) is a TypeError, strptime of
\* a text that is not a %Y-%m-%d date a ValueError
compute_tenure_raises(joining, exit_) ==
    \/ joining = NullDate
    \/ strptime(joining, FmtIso) = NoDate
    \/ exit_ # NullDate /\ strptime(exit_, FmtIso) = NoDate

\* compute_tenure, in hundredths of a year
compute_tenure(joining, exit_) ==
    LET start == strptime(joining, FmtIso)
        end   == IF exit_ # NullDate THEN strptime(exit_, FmtIso) ELSE Today
    IN  RoundTenure(DaysFromCivil(end.y, end.m, end.d)
                        - DaysFromCivil(start.y, start.m, start.d))

(***************************************************************************)
(* SQL helpers.                                                            *)
(***************************************************************************)
\* an equality that holds between two NULLs, as `is` or == of Python does
SqlEq_NullEqualsNull(a, b, null) == a = b

\* `column = ?` of SQL: a NULL on either side matches nothing
SqlEq(a, b, null) == a # null /\ b # null /\ a = b

RECURSIVE SortedSeq(_)
\* the rows a SELECT without ORDER BY returns: a scan of the table in rowid
\* order, and employee_id INTEGER PRIMARY KEY is the rowid
SortedSeq(s) ==
    IF s = {} THEN << >>
    ELSE LET least == CHOOSE x \in s : \A y \in s : x <= y
         IN  << least >> \o SortedSeq(s \ {least})

SeqRange(q) == {q[k] : k \in DOMAIN q}

\* WHERE clauses that take a row at or above the target level
TierMatch_AtOrAbove(S, tier, e, department, target_level, region, location) ==
    /\ SqlEq(S[e].department, department, NullText)
    /\ S[e].job_level # NoId /\ S[e].job_level >= target_level
    /\ (tier <= 2 => SqlEq(S[e].region, region, NullText))
    /\ (tier <= 1 => SqlEq(S[e].location, location, NullText))

\* WHERE clauses without the department
TierMatch_AnyDepartment(S, tier, e, department, target_level, region, location) ==
    /\ S[e].job_level # NoId /\ S[e].job_level = target_level
    /\ (tier <= 2 => SqlEq(S[e].region, region, NullText))
    /\ (tier <= 1 => SqlEq(S[e].location, location, NullText))

\* the three WHERE clauses of _candidate_ids_for_level, most specific first
TierMatch(S, tier, e, department, target_level, region, location) ==
    /\ SqlEq(S[e].department, department, NullText)
    /\ S[e].job_level # NoId /\ S[e].job_level = target_level
    /\ (tier <= 2 => SqlEq(S[e].region, region, NullText))
    /\ (tier <= 1 => SqlEq(S[e].location, location, NullText))

TierIds(S, tier, department, target_level, region, location) ==
    {e \in DOMAIN S : TierMatch(S, tier, e, department, target_level, region, location)}

\* a finder that returns the rows of all three queries together
candidate_ids_for_level_Merged(S, department, target_level, region, location) ==
    SortedSeq(TierIds(S, 1, department, target_level, region, location)
              \cup TierIds(S, 2, department, target_level, region, location)
              \cup TierIds(S, 3, department, target_level, region, location))

\* _candidate_ids_for_level: the rows of the first query that returns any
candidate_ids_for_level(S, department, target_level, region, location) ==
    LET t1 == TierIds(S, 1, department, target_level, region, location)
        t2 == TierIds(S, 2, department, target_level, region, location)
        t3 == TierIds(S, 3, department, target_level, region, location)
    IN  IF t1 # {} THEN SortedSeq(t1)
        ELSE IF t2 # {} THEN SortedSeq(t2)
        ELSE IF t3 # {} THEN SortedSeq(t3)
        ELSE << >>

\* SELECT COUNT(*) FROM employees WHERE <subordinate_col> = cid
SubordinateCount(S, subordinate_col, cid) ==
    Cardinality({e \in DOMAIN S : S[e][subordinate_col] # NoId
                                  /\ S[e][subordinate_col] = cid})

RECURSIVE LeastLoadedFrom_LastWins(_, _, _, _, _, _)
\* the loop with cnt <= best_count: the last of the tied candidates wins
LeastLoadedFrom_LastWins(S, candidate_ids, subordinate_col, k, best_id, best_count) ==
    IF k > Len(candidate_ids) THEN best_id
    ELSE LET cid == candidate_ids[k]
             cnt == SubordinateCount(S, subordinate_col, cid)
         IN  IF best_id = NoId \/ cnt <= best_count
             THEN LeastLoadedFrom_LastWins(S, candidate_ids, subordinate_col, k + 1, cid, cnt)
             ELSE LeastLoadedFrom_LastWins(S, candidate_ids, subordinate_col, k + 1,
                                           best_id, best_count)

RECURSIVE LeastLoadedFrom(_, _, _, _, _, _)
\* the loop of _choose_least_loaded from position k on; best_id = NoId stands
\* for best_count = inf
LeastLoadedFrom(S, candidate_ids, subordinate_col, k, best_id, best_count) ==
    IF k > Len(candidate_ids) THEN best_id
    ELSE LET cid == candidate_ids[k]
             cnt == SubordinateCount(S, subordinate_col, cid)
         IN  IF best_id = NoId \/ cnt < best_count
             THEN LeastLoadedFrom(S, candidate_ids, subordinate_col, k + 1, cid, cnt)
             ELSE LeastLoadedFrom(S, candidate_ids, subordinate_col, k + 1,
                                  best_id, best_count)

\* a chooser that takes the first candidate without counting
choose_least_loaded_First(S, candidate_ids, subordinate_col) ==
    IF candidate_ids = << >> THEN NoId ELSE candidate_ids[1]

\* _choose_least_loaded
choose_least_loaded(S, candidate_ids, subordinate_col) ==
    IF candidate_ids = << >> THEN NoId
    ELSE LeastLoadedFrom(S, candidate_ids, subordinate_col, 1, NoId, 0)

\* _find_leader
find_leader(S, department, job_level, region, location, level_offset, subordinate_col) ==
    choose_least_loaded(
        S,
        candidate_ids_for_level(S, department, job_level + level_offset, region, location),
        subordinate_col)

\* a validity check of department and level alone: any tier will do
is_valid_leader_id_AnyTier(S, department, job_level, region, location, leader_id, level_offset) ==
    /\ leader_id # NoId
    /\ leader_id \in DOMAIN S
    /\ S[leader_id].department = department
    /\ S[leader_id].job_level = job_level + level_offset

\* a validity check that only asks whether the leader exists
is_valid_leader_id_AnyExisting(S, department, job_level, region, location, leader_id, level_offset) ==
    leader_id # NoId /\ leader_id \in DOMAIN S

\* a validity check that also wants the leader to have a manager of its own,
\* unless it is at the apex
is_valid_leader_id_Cascading(S, department, job_level, region, location, leader_id, level_offset) ==
    /\ leader_id # NoId
    /\ leader_id \in SeqRange(
           candidate_ids_for_level(S, department, job_level + level_offset,
                                   region, location))
    /\ (S[leader_id].job_level = ApexLevel \/ S[leader_id].manager_id # NoId)

\* _is_valid_leader_id
is_valid_leader_id(S, department, job_level, region, location, leader_id, level_offset) ==
    IF leader_id = NoId THEN FALSE
    ELSE leader_id \in SeqRange(
             candidate_ids_for_level(S, department, job_level + level_offset,
                                     region, location))


(***************************************************************************)
(* The passes, one row at a time.  S is the table as the connection sees   *)
(* it (its own uncommitted writes included); row is a row of the snapshot  *)
(* the pass fetched before its loop.                                       *)
(***************************************************************************)
\* the manager half of one iteration of validate_manager_id_supervisor_id
ClearsManager(S, row) ==
    /\ row.manager_id # NoId
    /\ ~is_valid_leader_id(S, row.department, row.job_level, row.region,
                           row.location, row.manager_id, ManagerOffset)

\* a supervisor check that skips level-4 rows, as the fill pass does
ClearsSupervisor_SkipsLevel4(S, row) ==
    /\ row.supervisor_id # NoId
    /\ row.job_level # NoSupervisorLevel
    /\ ~is_valid_leader_id(S, row.department, row.job_level, row.region,
                           row.location, row.supervisor_id, SupervisorOffset)

\* the supervisor half of one iteration of validate_manager_id_supervisor_id
ClearsSupervisor(S, row) ==
    /\ row.supervisor_id # NoId
    /\ ~is_valid_leader_id(S, row.department, row.job_level, row.region,
                           row.location, row.supervisor_id, SupervisorOffset)

\* an iteration that clears both links once the manager link is invalid
validate_row_Coupled(S, row) ==
    IF ClearsManager(S, row)
    THEN [S EXCEPT ![row.employee_id].manager_id = NoId,
                   ![row.employee_id].supervisor_id = NoId]
    ELSE IF ClearsSupervisor(S, row)
    THEN [S EXCEPT ![row.employee_id].supervisor_id = NoId]
    ELSE S

\* one iteration of the loop of validate_manager_id_supervisor_id
validate_row(S, row) ==
    LET S1 == IF ClearsManager(S, row)
              THEN [S EXCEPT ![row.employee_id].manager_id = NoId]
              ELSE S
    IN  IF ClearsSupervisor(S1, row)
        THEN [S1 EXCEPT ![row.employee_id].supervisor_id = NoId]
        ELSE S1

\* a jl that puts a record without job_level at the apex, where the fill
\* passes find nobody above it
FillLevel_NullIsApex(row) == IF row.job_level # NoId THEN row.job_level ELSE ApexLevel

\* jl of the fill passes: int(job_level) if job_level is not None else 0
FillLevel(row) == IF row.job_level # NoId THEN row.job_level ELSE 0

\* a manager lookup that skips level 4, the level the supervisor pass skips
ManagerFor_SkipsLevel4(S, row) ==
    IF FillLevel(row) = NoSupervisorLevel THEN NoId
    ELSE find_leader(S, row.department, FillLevel(row), row.region, row.location,
                     ManagerOffset, "manager_id")

\* the manager a row of update_employees_manager_id is given (NoId: none)
ManagerFor(S, row) ==
    IF FillLevel(row) = ApexLevel THEN NoId
    ELSE find_leader(S, row.department, FillLevel(row), row.region, row.location,
                     ManagerOffset, "manager_id")

\* one iteration of the loop of update_employees_manager_id
manager_row(S, row) ==
    LET manager_id == ManagerFor(S, row)
    IN  IF manager_id # NoId
        THEN [S EXCEPT ![row.employee_id].manager_id = manager_id]
        ELSE S

\* a supervisor lookup that counts in the column of the manager pass
SupervisorFor_CountsManagers(S, row) ==
    IF FillLevel(row) = NoSupervisorLevel THEN NoId
    ELSE find_leader(S, row.department, FillLevel(row), row.region, row.location,
                     SupervisorOffset, "manager_id")

\* the supervisor a row of update_employees_supervisor_id is given (NoId: none)
SupervisorFor(S, row) ==
    IF FillLevel(row) = NoSupervisorLevel THEN NoId
    ELSE find_leader(S, row.department, FillLevel(row), row.region, row.location,
                     SupervisorOffset, "supervisor_id")

\* an iteration whose UPDATE is the one of the manager pass: it sets manager_id
supervisor_row_SetsManager(S, row) ==
    LET supervisor_id == SupervisorFor(S, row)
    IN  IF supervisor_id # NoId
        THEN [S EXCEPT ![row.employee_id].manager_id = supervisor_id]
        ELSE S

\* one iteration of the loop of update_employees_supervisor_id
supervisor_row(S, row) ==
    LET supervisor_id == SupervisorFor(S, row)
    IN  IF supervisor_id # NoId
        THEN [S EXCEPT ![row.employee_id].supervisor_id = supervisor_id]
        ELSE S

\* a fetched row: the key and the selected columns as they were at the SELECT
RowOf(S, e) ==
    [employee_id   |-> e,
     department    |-> S[e].department,
     job_level     |-> S[e].job_level,
     region        |-> S[e].region,
     location      |-> S[e].location,
     manager_id    |-> S[e].manager_id,
     supervisor_id |-> S[e].supervisor_id]

FetchAll(S, ids) == [k \in 1..Cardinality(ids) |-> RowOf(S, SortedSeq(ids)[k])]

\* SELECT ... WHERE manager_id IS NOT NULL OR supervisor_id IS NOT NULL
validate_select(S) ==
    FetchAll(S, {e \in DOMAIN S : S[e].manager_id # NoId \/ S[e].supervisor_id # NoId})

\* int(job_level) raises TypeError on a fetched row whose job_level is NULL
ValidateRaises(S) ==
    \E k \in DOMAIN validate_select(S) : validate_select(S)[k].job_level = NoId

\* a manager SELECT without its WHERE clause
manager_select_AllRows(S) == FetchAll(S, DOMAIN S)

\* SELECT ... WHERE manager_id IS NULL
manager_select(S) == FetchAll(S, {e \in DOMAIN S : S[e].manager_id = NoId})

\* a supervisor SELECT with the WHERE clause of the manager pass
supervisor_select_WhereManagerNull(S) ==
    FetchAll(S, {e \in DOMAIN S : S[e].manager_id = NoId})

\* SELECT ... WHERE supervisor_id IS NULL
supervisor_select(S) == FetchAll(S, {e \in DOMAIN S : S[e].supervisor_id = NoId})

\* a compute_tenure that takes a joining date that did not normalize
TenureRaises_Never(S) == \E e \in DOMAIN S : FALSE

\* compute_tenure raises on a row of the loop
TenureRaises(S) ==
    \E e \in DOMAIN S :
        compute_tenure_raises(parse_date(S[e].joining_date), parse_date(S[e].exit_date))

\* a tenure pass that also derives is_active from the exit date
update_employees_tenure_SetsActive(S) ==
    [e \in DOMAIN S |->
        LET joining_norm == parse_date(S[e].joining_date)
            exit_norm    == parse_date(S[e].exit_date)
        IN  [S[e] EXCEPT !.joining_date = joining_norm,
                         !.exit_date    = exit_norm,
                         !.tenure_years = compute_tenure(joining_norm, exit_norm),
                         !.is_active    = (exit_norm = NullDate)]]

\* update_employees_tenure when no row raises: the executemany of all updates
update_employees_tenure(S) ==
    [e \in DOMAIN S |->
        LET joining_norm == parse_date(S[e].joining_date)
            exit_norm    == parse_date(S[e].exit_date)
        IN  [S[e] EXCEPT !.joining_date = joining_norm,
                         !.exit_date    = exit_norm,
                         !.tenure_years = compute_tenure(joining_norm, exit_norm)]]


(***************************************************************************)
(* The input stores.                                                       *)
(***************************************************************************)
\* joining_date / exit_date texts of the input, by date case:
\*   clean    canonical joining dates, exit dates null or canonical
\*   mixed    the accepted non-canonical formats, unparseable exit dates
\*   badjoin  as clean, with one joining_date that no format parses
\*   spaced   joining dates followed by a time, the day padded with a blank
\* (insert_data.parse_date stores a text it cannot parse as it is)
DateCases == {"clean", "mixed", "badjoin", "spaced"}

JoinFormats == << "US", "EU", "ISOSLASH", "ISOTAIL" >>

JoiningText(e, dateCase) ==
    IF dateCase = "mixed"
    THEN MkDate(JoinFormats[1 + (e % Len(JoinFormats))], 2019 + (e % 3), 1 + (e % 12), 15)
    ELSE IF dateCase = "badjoin" /\ e = NumEmployees
    THEN MkDate("JUNK", 0, 0, 0)
    ELSE IF dateCase = "spaced"
    THEN MkDate("SPACED", 2020, 1, e)
    ELSE MkDate("ISO", 2020, 1, e)

ExitText(e, dateCase) ==
    IF dateCase = "mixed"
    THEN (IF e % 3 = 0 THEN MkDate("JUNK", 0, 0, 0)
          ELSE IF e % 3 = 1 THEN MkDate("NA", 0, 0, 0)
          ELSE MkDate("US", 2023, 6, 30))
    ELSE IF e % 2 = 0 THEN MkDate("ISO", 2022, 12, 31)
    ELSE NullDate

\* a row of the input store
RawRow(e, level, profile, manager, supervisor, dateCase) ==
    [department         |-> Profiles[profile].department,
     job_level          |-> level,
     region             |-> Profiles[profile].region,
     location           |-> Profiles[profile].location,
     manager_id         |-> manager,
     supervisor_id      |-> supervisor,
     joining_date       |-> JoiningText(e, dateCase),
     exit_date          |-> ExitText(e, dateCase),
     tenure_years       |-> 0,
     performance_rating |-> 1 + (e % 5),
     is_active          |-> (e % 2 = 1)]

\* Rows of different levels never read or count each other's links, so the
\* table is laid out by level; rows of one level keep every order of id.
LevelLayouts ==
    {lv \in [EmployeeIds -> JobLevels] :
        \A e \in EmployeeIds : e < NumEmployees => lv[e] <= lv[e + 1]}

\* the second and the third row take every profile, the other rows are in
\* the first profile
ProfileLayouts ==
    {pf \in [EmployeeIds -> DOMAIN Profiles] :
        \A e \in EmployeeIds : e \notin {2, 3} => pf[e] = 1}

PlainProfiles == {[e \in EmployeeIds |-> 1]}

\* raw links are held by the first two rows: an existing employee, or
\* NumEmployees + 1, the id of no row
RawManagers(e) ==
    IF e = 1 THEN {NoId, 2, 3, NumEmployees + 1}
    ELSE IF e = 2 THEN {NoId, 3}
    ELSE {NoId}

RawSupervisors(e) ==
    IF e = 1 THEN {NoId, 3, NumEmployees} ELSE {NoId}

ManagerLayouts ==
    {f \in [EmployeeIds -> 0..(NumEmployees + 1)] :
        \A e \in EmployeeIds : f[e] \in RawManagers(e)}

SupervisorLayouts ==
    {f \in [EmployeeIds -> 0..(NumEmployees + 1)] :
        \A e \in EmployeeIds : f[e] \in RawSupervisors(e)}

StoresOf(profileLayouts, dateCases) ==
    {[e \in EmployeeIds |-> RawRow(e, lv[e], pf[e], mg[e], sp[e], dc)] :
        lv \in LevelLayouts, pf \in profileLayouts,
        mg \in ManagerLayouts, sp \in SupervisorLayouts,
        dc \in dateCases}

\* stores with links that name the record itself, no row, or a row of another
\* department: the first row is its own manager and has a supervisor_id that
\* names no row, the second row is its own supervisor and has the third row,
\* of its department or of another, as manager, and the third row has the
\* last row as manager
SelfLinkedStores ==
    {[e \in EmployeeIds |->
         RawRow(e, lv[e], IF e = 3 THEN pf ELSE 1,
                IF e = 1 THEN 1 ELSE IF e = 2 THEN 3
                    ELSE IF e = 3 THEN NumEmployees ELSE NoId,
                IF e = 1 THEN NumEmployees + 1 ELSE IF e = 2 THEN 2 ELSE NoId,
                "clean")] :
        lv \in LevelLayouts, pf \in {1, Len(Profiles)}}

\* department, region, location with one of them empty in the CSV (parse_text
\* stores None)
NullAttrs ==
    << [department |-> "Eng",    region |-> NullText, location |-> "NY"],
       [department |-> "Eng",    region |-> "NA",     location |-> NullText],
       [department |-> NullText, region |-> "NA",     location |-> "NY"] >>

\* a row with the given department, region and location
AttrRow(e, level, attrs, manager, supervisor) ==
    [RawRow(e, level, 1, manager, supervisor, "clean")
        EXCEPT !.department = attrs.department,
               !.region     = attrs.region,
               !.location   = attrs.location]

\* the attributes the rows after the first take in the stores with nulls
LeaderAttrs(e) ==
    IF e = 2 THEN {Profiles[1], Profiles[2], NullAttrs[1], NullAttrs[3]}
    ELSE IF e = 3 \/ e = NumEmployees THEN {Profiles[1], Profiles[3]}
    ELSE {Profiles[1]}

\* stores with empty cells.  The first row has an unknown region, location
\* or department, or none, and a job_level of 3 or none (parse_int stores
\* None); it may name the second row as manager and the last as supervisor.
\* The last row is two levels above the first (above level 0 when the first
\* has none), the rows between are one level above it.
NullStores ==
    {[e \in EmployeeIds |->
         IF e = 1 THEN AttrRow(e, lv, sa, mg, sp)
         ELSE AttrRow(e, lv + (IF e = NumEmployees THEN 2 ELSE 1), la[e], NoId, NoId)] :
        lv \in {NoId, ApexLevel - 2},
        sa \in {Profiles[1], NullAttrs[1], NullAttrs[2], NullAttrs[3]},
        mg \in {NoId, 2}, sp \in {NoId, NumEmployees},
        la \in {f \in [EmployeeIds -> LeaderAttrs(2) \cup LeaderAttrs(3)] :
                   \A e \in EmployeeIds : f[e] \in LeaderAttrs(IF e = 1 THEN 0 ELSE e)}}

\* date cases other than clean come with every row in the first profile
InputStores ==
    StoresOf(ProfileLayouts, {"clean"})
        \cup StoresOf(PlainProfiles, DateCases \ {"clean"})
        \cup SelfLinkedStores
        \cup NullStores

(***************************************************************************)
(* State.                                                                  *)
(***************************************************************************)
VARIABLES
    exists,       \* DB_PATH.exists()
    raw,          \* the table when main() started
    disk,         \* the committed table
    db,           \* the table as the connection sees it
    pc,           \* where main() is
    rows,         \* the rows the running pass fetched
    i,            \* rows[1..i] have been processed
    committed,    \* number of commits main() has made
    cleared_mgr, cleared_sup,   \* counters of validate_manager_id_supervisor_id
    updated, skipped,           \* counters of the running fill pass
    max_retries,  \* generate_answer: the parameter
    apc,          \* generate_answer: where the call is
    attempt,      \* generate_answer: failed executions so far
    current_sql,  \* generate_answer: the query the next execution runs
    sql_result,   \* generate_answer: what the execution returned
    last_error,   \* generate_answer: str(exc) of the last failed execution
    calls,        \* generate_answer: the invocations made, in order
    response      \* generate_answer: what the call returned

repairVars == << exists, raw, disk, db, pc, rows, i, committed,
                 cleared_mgr, cleared_sup, updated, skipped >>

agentVars == << max_retries, apc, attempt, current_sql, sql_result, last_error,
                calls, response >>

vars == << repairVars, agentVars >>

NoSql == ""
NoError == ""
NoResult == "None"
NoResponse == [text |-> "", error |-> NoError]

\* generate_answer is not running
AgentIdle ==
    /\ max_retries = 0
    /\ apc = "idle"
    /\ attempt = 0
    /\ current_sql = NoSql
    /\ sql_result = NoResult
    /\ last_error = NoError
    /\ calls = << >>
    /\ response = NoResponse

NoStore == [e \in {} |-> 0]

Init ==
    /\ \/ exists = TRUE  /\ raw \in InputStores
       \/ exists = FALSE /\ raw = NoStore
    /\ disk = raw
    /\ db = raw
    /\ pc = "main"
    /\ rows = << >>
    /\ i = 0
    /\ committed = 0
    /\ cleared_mgr = 0 /\ cleared_sup = 0
    /\ updated = 0 /\ skipped = 0
    /\ AgentIdle

Counters == << cleared_mgr, cleared_sup, updated, skipped >>

(***************************************************************************)
(* main()                                                                  *)
(***************************************************************************)
\* a main() that connects without the check: the passes run on a new file
MainNotFound_Connects ==
    /\ pc = "main" /\ ~exists
    /\ exists' = TRUE
    /\ pc' = "validate"
    /\ UNCHANGED << agentVars, raw, disk, db, rows, i, committed, Counters >>

\* DB_PATH.exists() is false: FileNotFoundError
MainNotFound ==
    /\ pc = "main" /\ ~exists
    /\ pc' = "failed"
    /\ UNCHANGED << agentVars, exists, raw, disk, db, rows, i, committed, Counters >>

\* sqlite3.connect(DB_PATH), conn.cursor()
MainOpen ==
    /\ pc = "main" /\ exists
    /\ pc' = "validate"
    /\ UNCHANGED << agentVars, exists, raw, disk, db, rows, i, committed, Counters >>

\* validate_manager_id_supervisor_id: the SELECT and fetchall
ValidateSelect ==
    /\ pc = "validate"
    /\ rows' = validate_select(db)
    /\ i' = 0
    /\ cleared_mgr' = 0 /\ cleared_sup' = 0
    /\ pc' = "validate_loop"
    /\ UNCHANGED << agentVars, exists, raw, disk, db, committed, updated, skipped >>

\* validate_manager_id_supervisor_id: one iteration of the loop
ValidateRow ==
    /\ pc = "validate_loop" /\ i < Len(rows)
    /\ rows[i + 1].job_level # NoId
    /\ LET row == rows[i + 1]
           S1  == IF ClearsManager(db, row)
                  THEN [db EXCEPT ![row.employee_id].manager_id = NoId]
                  ELSE db
       IN  /\ db' = validate_row(db, row)
           /\ cleared_mgr' = cleared_mgr + (IF ClearsManager(db, row) THEN 1 ELSE 0)
           /\ cleared_sup' = cleared_sup + (IF ClearsSupervisor(S1, row) THEN 1 ELSE 0)
    /\ i' = i + 1
    /\ UNCHANGED << agentVars, exists, raw, disk, pc, rows, committed, updated, skipped >>

\* validate_manager_id_supervisor_id: jl = int(job_level) raises on a row
\* whose job_level is NULL; the exception leaves main() and the connection
\* rolls back
ValidateError ==
    /\ pc = "validate_loop" /\ i < Len(rows)
    /\ rows[i + 1].job_level = NoId
    /\ db' = disk
    /\ rows' = << >> /\ i' = 0
    /\ cleared_mgr' = 0 /\ cleared_sup' = 0
    /\ updated' = 0 /\ skipped' = 0
    /\ pc' = "aborted"
    /\ UNCHANGED << agentVars, exists, raw, disk, committed >>

\* a pass returns when its loop has run over the fetched rows
PassReturns(loop, next) ==
    /\ pc = loop /\ i = Len(rows)
    /\ pc' = next
    /\ UNCHANGED << agentVars, exists, raw, disk, db, rows, i, committed, Counters >>

ValidateReturns == PassReturns("validate_loop", "commit1")

\* a commit that moves on without writing the transaction to the file
Commit_WritesNothing(at, next) ==
    /\ pc = at
    /\ disk' = disk
    /\ committed' = committed + 1
    /\ pc' = next
    /\ UNCHANGED << agentVars, exists, raw, db, rows, i, Counters >>

\* conn.commit()
Commit(at, next) ==
    /\ pc = at
    /\ disk' = db
    /\ committed' = committed + 1
    /\ pc' = next
    /\ UNCHANGED << agentVars, exists, raw, db, rows, i, Counters >>

Commit1 == Commit("commit1", "tenure")

\* update_employees_tenure: every row parses, the executemany writes them all
Tenure ==
    /\ pc = "tenure" /\ ~TenureRaises(db)
    /\ db' = update_employees_tenure(db)
    /\ rows' = FetchAll(db, DOMAIN db)
    /\ i' = Len(rows')
    /\ pc' = "commit2"
    /\ UNCHANGED << agentVars, exists, raw, disk, committed, Counters >>

\* update_employees_tenure: compute_tenure raises on a joining_date that did
\* not normalize; the exception leaves main() and the connection rolls back
TenureError ==
    /\ pc = "tenure" /\ TenureRaises(db)
    /\ db' = disk
    /\ rows' = << >> /\ i' = 0
    /\ cleared_mgr' = 0 /\ cleared_sup' = 0
    /\ updated' = 0 /\ skipped' = 0
    /\ pc' = "aborted"
    /\ UNCHANGED << agentVars, exists, raw, disk, committed >>

Commit2 == Commit("commit2", "manager")

\* update_employees_manager_id: the SELECT and fetchall
ManagerSelect ==
    /\ pc = "manager"
    /\ rows' = manager_select(db)
    /\ i' = 0
    /\ updated' = 0 /\ skipped' = 0
    /\ pc' = "manager_loop"
    /\ UNCHANGED << agentVars, exists, raw, disk, db, committed, cleared_mgr, cleared_sup >>

\* an iteration that gives the row any of its least loaded candidates, as
\* it would if the order of the candidates were not that of the table
ManagerRow_AnyLeastLoaded ==
    /\ pc = "manager_loop" /\ i < Len(rows)
    /\ LET row   == rows[i + 1]
           cands == SeqRange(candidate_ids_for_level(db, row.department,
                                 FillLevel(row) + ManagerOffset, row.region, row.location))
           least == {c \in cands : \A o \in cands :
                        SubordinateCount(db, "manager_id", c)
                            <= SubordinateCount(db, "manager_id", o)}
       IN  /\ IF FillLevel(row) = ApexLevel \/ cands = {}
              THEN db' = db
              ELSE \E c \in least : db' = [db EXCEPT ![row.employee_id].manager_id = c]
           /\ skipped' = skipped + (IF FillLevel(row) = ApexLevel THEN 1 ELSE 0)
           /\ updated' = updated + (IF ManagerFor(db, row) # NoId THEN 1 ELSE 0)
    /\ i' = i + 1
    /\ UNCHANGED << agentVars, exists, raw, disk, pc, rows, committed, cleared_mgr, cleared_sup >>

\* an iteration that counts the reports in the committed store, without
\* the assignments made earlier in the pass
ManagerRow_CountsCommitted ==
    /\ pc = "manager_loop" /\ i < Len(rows)
    /\ LET row == rows[i + 1]
       IN  /\ db' = IF ManagerFor(disk, row) # NoId
                    THEN [db EXCEPT ![row.employee_id].manager_id = ManagerFor(disk, row)]
                    ELSE db
           /\ skipped' = skipped + (IF FillLevel(row) = ApexLevel THEN 1 ELSE 0)
           /\ updated' = updated + (IF ManagerFor(disk, row) # NoId THEN 1 ELSE 0)
    /\ i' = i + 1
    /\ UNCHANGED << agentVars, exists, raw, disk, pc, rows, committed, cleared_mgr, cleared_sup >>

\* update_employees_manager_id: one iteration of the loop
ManagerRow ==
    /\ pc = "manager_loop" /\ i < Len(rows)
    /\ LET row == rows[i + 1]
       IN  /\ db' = manager_row(db, row)
           /\ skipped' = skipped + (IF FillLevel(row) = ApexLevel THEN 1 ELSE 0)
           /\ updated' = updated + (IF ManagerFor(db, row) # NoId THEN 1 ELSE 0)
    /\ i' = i + 1
    /\ UNCHANGED << agentVars, exists, raw, disk, pc, rows, committed, cleared_mgr, cleared_sup >>

ManagerReturns == PassReturns("manager_loop", "commit3")

Commit3 == Commit("commit3", "supervisor")

\* update_employees_supervisor_id: the SELECT and fetchall
SupervisorSelect ==
    /\ pc = "supervisor"
    /\ rows' = supervisor_select(db)
    /\ i' = 0
    /\ updated' = 0 /\ skipped' = 0
    /\ pc' = "supervisor_loop"
    /\ UNCHANGED << agentVars, exists, raw, disk, db, committed, cleared_mgr, cleared_sup >>

\* update_employees_supervisor_id: one iteration of the loop
SupervisorRow ==
    /\ pc = "supervisor_loop" /\ i < Len(rows)
    /\ LET row == rows[i + 1]
       IN  /\ db' = supervisor_row(db, row)
           /\ skipped' = skipped + (IF FillLevel(row) = NoSupervisorLevel THEN 1 ELSE 0)
           /\ updated' = updated + (IF SupervisorFor(db, row) # NoId THEN 1 ELSE 0)
    /\ i' = i + 1
    /\ UNCHANGED << agentVars, exists, raw, disk, pc, rows, committed, cleared_mgr, cleared_sup >>

SupervisorReturns == PassReturns("supervisor_loop", "commit4")

Commit4 == Commit("commit4", "done")

Running == {"validate", "validate_loop", "commit1", "tenure", "commit2", "manager",
            "manager_loop", "commit3", "supervisor", "supervisor_loop", "commit4"}

\* an interruption that leaves the writes made so far in the file
Interrupt_KeepsWrites ==
    /\ pc \in Running
    /\ disk' = db
    /\ rows' = << >> /\ i' = 0
    /\ cleared_mgr' = 0 /\ cleared_sup' = 0
    /\ updated' = 0 /\ skipped' = 0
    /\ pc' = "aborted"
    /\ UNCHANGED << agentVars, exists, raw, db, committed >>

\* the process is interrupted with the connection open: the uncommitted
\* writes of the transaction are rolled back
Interrupt ==
    /\ pc \in Running
    /\ db' = disk
    /\ rows' = << >> /\ i' = 0
    /\ cleared_mgr' = 0 /\ cleared_sup' = 0
    /\ updated' = 0 /\ skipped' = 0
    /\ pc' = "aborted"
    /\ UNCHANGED << agentVars, exists, raw, disk, committed >>

Next ==
    \/ MainNotFound \/ MainOpen
    \/ ValidateSelect \/ ValidateRow \/ ValidateError \/ ValidateReturns \/ Commit1
    \/ Tenure \/ TenureError \/ Commit2
    \/ ManagerSelect \/ ManagerRow \/ ManagerReturns \/ Commit3
    \/ SupervisorSelect \/ SupervisorRow \/ SupervisorReturns \/ Commit4
    \/ Interrupt

Spec == Init /\ [][Next]_vars

(***************************************************************************)
(* Runs of main() over one-row stores whose dates are written in many      *)
(* ways: the inputs of parse_date and compute_tenure.                      *)
(***************************************************************************)
DateFormats == {"ISO", "US", "EU", "ISOSLASH", "ISOTAIL", "SPACED"}

\* years of one to four digits
DateYears == {1, 999, 1000, 2020, 2023}

\* month and day: ordinary days, the 29th and 30th of February, a 13th month
DateDays == { << 1, 1 >>, << 6, 5 >>, << 2, 29 >>, << 2, 30 >>, << 12, 31 >>, << 13, 1 >> }

\* texts that are not a date in one of the formats, or not a padded one
OddTexts ==
    { NullDate, << >>, << " ", " " >>,
      << "N", "A" >>, << "n", "/", "a" >>, << "n", "u", "l", "l" >>,
      << " ", "N", "o", "n", "e", " " >>, << "s", "o", "o", "n" >>,
      << "2", "0", "2", "0", "-", "1", "-", "5" >>,
      << "1", "/", "5", "/", "2", "0", "2", "0" >>,
      << " ", "2", "0", "2", "0", "-", "0", "1", "-", "0", "5", " " >>,
      << "0", "0", "0", "0", "-", "0", "1", "-", "0", "1" >>,
      << "2", "0", "2", "0", "-", "0", "1", "-", "0", "5", "-" >> }

DateTexts ==
    {MkDate(f, yy, md[1], md[2]) : f \in DateFormats, yy \in DateYears, md \in DateDays}
        \cup OddTexts

\* the one row of a date store; its manager_id names no row
DateRow(joining, exit_) ==
    [RawRow(1, ApexLevel - 2, 1, 2, NoId, "clean")
        EXCEPT !.joining_date = joining, !.exit_date = exit_]

\* exit_date texts that no format parses, not even their first 10 characters
BadExitTexts ==
    { << "s", "o", "o", "n" >>,
      << "2", "0", "2", "0", "-", "1", "3", "-", "0", "1" >>,
      << "3", "0", "/", "0", "2", "/", "2", "0", "2", "0", " ", "x" >> }

\* every text as the joining_date of a row without exit_date, and as the
\* exit_date of a row that joined on 2020-01-01; and the 5th of June of every
\* year in every format as the joining_date of a row whose exit_date does
\* not parse; and a row without job_level
DateStores ==
    {[e \in {1} |-> DateRow(t, NullDate)] : t \in DateTexts \ {NullDate}}
        \cup {[e \in {1} |-> DateRow(MkDate("ISO", 2020, 1, 1), t)] : t \in DateTexts}
        \cup {[e \in {1} |-> DateRow(MkDate(f, yy, 6, 5), t)] :
                  f \in DateFormats, yy \in DateYears, t \in BadExitTexts}
        \cup {[e \in {1} |->
                   [DateRow(MkDate("ISO", 2020, 1, 1), NullDate) EXCEPT !.job_level = NoId]]}

DateInit ==
    /\ \/ exists = TRUE  /\ raw \in DateStores
       \/ exists = FALSE /\ raw = NoStore
    /\ disk = raw
    /\ db = raw
    /\ pc = "main"
    /\ rows = << >>
    /\ i = 0
    /\ committed = 0
    /\ cleared_mgr = 0 /\ cleared_sup = 0
    /\ updated = 0 /\ skipped = 0
    /\ AgentIdle

SpecDates == DateInit /\ [][Next]_vars

(***************************************************************************)
(* Runs of main() that nothing interrupts, over the stores of both kinds:  *)
(* every step is a step of the program.                                    *)
(***************************************************************************)
RunInit ==
    /\ \/ exists = TRUE  /\ raw \in InputStores \cup DateStores
       \/ exists = FALSE /\ raw = NoStore
    /\ disk = raw
    /\ db = raw
    /\ pc = "main"
    /\ rows = << >>
    /\ i = 0
    /\ committed = 0
    /\ cleared_mgr = 0 /\ cleared_sup = 0
    /\ updated = 0 /\ skipped = 0
    /\ AgentIdle

Run ==
    \/ MainNotFound \/ MainOpen
    \/ ValidateSelect \/ ValidateRow \/ ValidateError \/ ValidateReturns \/ Commit1
    \/ Tenure \/ TenureError \/ Commit2
    \/ ManagerSelect \/ ManagerRow \/ ManagerReturns \/ Commit3
    \/ SupervisorSelect \/ SupervisorRow \/ SupervisorReturns \/ Commit4

SpecRun == RunInit /\ [][Run]_vars



(***************************************************************************)
(* generate_answer of agent/langchain.py: generate the SQL, execute it     *)
(* with the repair loop, synthesize the answer.  The language model and    *)
(* the database are the environment: what they return is chosen freely.    *)
(***************************************************************************)
\* the largest max_retries a call is made with (the page calls with 2)
MaxRetries == 2

\* the queries the model writes, the messages of the exceptions of an
\* execution, the results of one, the texts of a synthesized answer
Queries == {"q1", "q2"}
Errors == {"e1", "e2"}
SqlResults == {"rows", "[]"}
FinalTexts == {"answer", ""}

\* main() is not running
RepairIdle ==
    /\ exists = FALSE
    /\ raw = NoStore /\ disk = NoStore /\ db = NoStore
    /\ pc = "idle"
    /\ rows = << >>
    /\ i = 0
    /\ committed = 0
    /\ cleared_mgr = 0 /\ cleared_sup = 0
    /\ updated = 0 /\ skipped = 0

AgentInit ==
    /\ RepairIdle
    /\ max_retries \in 0..MaxRetries
    /\ apc = "generate"
    /\ attempt = 0
    /\ current_sql = NoSql
    /\ sql_result = NoResult
    /\ last_error = NoError
    /\ calls = << >>
    /\ response = NoResponse

\* an invocation: which prompt or tool, the query and the error text it was
\* given, what came back, and whether it returned (an execution may raise)
Call(call, sql, error, out, ok) ==
    [call |-> call, sql |-> sql, error |-> error, out |-> out, ok |-> ok]

\* while attempt <= max_retries
LoopContinues(a, n) == a <= n

\* a test that gives up one failure later
Exhausted_OneLater(a, n) == a > n + 1

\* if attempt > max_retries
Exhausted(a, n) == a > n

\* the while test: into the body, or past the loop to the synthesis
LoopTest(a, n) == IF LoopContinues(a, n) THEN "execute" ELSE "synthesis"

\* FALLBACK_GENERAL_PROMPT_TEMPLATE through llm.invoke, and the return
Fallback(at, error_section) ==
    /\ apc = at
    /\ calls' = Append(calls, Call("fallback", NoSql, error_section, "fallback", TRUE))
    /\ response' = [text |-> "fallback", error |-> error_section]
    /\ apc' = "returned"
    /\ UNCHANGED << repairVars, max_retries, attempt, current_sql, sql_result, last_error >>

\* 1) Generate SQL, and the setup of the loop with its first test
GenerateSql ==
    /\ apc = "generate"
    /\ \E sql_query \in Queries \cup {NoSql} :
           /\ calls' = Append(calls, Call("generate", NoSql, NoError, sql_query, TRUE))
           /\ IF sql_query = NoSql
              THEN /\ apc' = "no_sql"
                   /\ UNCHANGED << attempt, current_sql, sql_result, last_error >>
              ELSE /\ attempt' = 0
                   /\ last_error' = NoError
                   /\ current_sql' = sql_query
                   /\ sql_result' = NoResult
                   /\ apc' = LoopTest(0, max_retries)
    /\ UNCHANGED << repairVars, max_retries, response >>

\* if not sql_query: the fallback without error section
FallbackNoSql == Fallback("no_sql", NoError)

\* db_tool.invoke(current_sql) returns; break
ExecuteReturns ==
    /\ apc = "execute"
    /\ \E r \in SqlResults :
           /\ sql_result' = r
           /\ calls' = Append(calls, Call("execute", current_sql, NoError, r, TRUE))
    /\ apc' = "synthesis"
    /\ UNCHANGED << repairVars, max_retries, attempt, current_sql, last_error, response >>

\* db_tool.invoke(current_sql) raises: last_error, attempt += 1 and the test
ExecuteRaises ==
    /\ apc = "execute"
    /\ \E exc \in Errors :
           /\ last_error' = exc
           /\ calls' = Append(calls, Call("execute", current_sql, NoError, exc, FALSE))
    /\ attempt' = attempt + 1
    /\ apc' = IF Exhausted(attempt', max_retries) THEN "exhausted" ELSE "repair"
    /\ UNCHANGED << repairVars, max_retries, current_sql, sql_result, response >>

\* the fallback with the error section of the last attempt
FallbackLastError == Fallback("exhausted", last_error)

\* SQL_REPAIR_PROMPT_TEMPLATE through structured_llm.invoke; an empty query
\* keeps current_sql; then the while test
Repair ==
    /\ apc = "repair"
    /\ \E fixed \in Queries \cup {NoSql} :
           /\ calls' = Append(calls, Call("repair", current_sql, last_error, fixed, TRUE))
           /\ current_sql' = IF fixed # NoSql THEN fixed ELSE current_sql
    /\ apc' = LoopTest(attempt, max_retries)
    /\ UNCHANGED << repairVars, max_retries, attempt, sql_result, last_error, response >>

\* 3) Answer synthesis
Synthesis ==
    /\ apc = "synthesis"
    /\ \E final_text \in FinalTexts :
           /\ calls' = Append(calls, Call("synthesis", current_sql, NoError, final_text, TRUE))
           /\ IF final_text = ""
              THEN apc' = "empty_answer" /\ UNCHANGED response
              ELSE /\ response' = [text |-> final_text, error |-> NoError]
                   /\ apc' = "returned"
    /\ UNCHANGED << repairVars, max_retries, attempt, current_sql, sql_result, last_error >>

\* if not final_text: the fallback without error section
FallbackEmptyAnswer == Fallback("empty_answer", NoError)

AgentNext ==
    \/ GenerateSql \/ FallbackNoSql
    \/ ExecuteReturns \/ ExecuteRaises \/ FallbackLastError \/ Repair
    \/ Synthesis \/ FallbackEmptyAnswer

\* the call is one thread of control: a step that can be taken is taken
SpecAgent == AgentInit /\ [][AgentNext]_vars /\ WF_vars(AgentNext)

(***************************************************************************)
(* A whole run of main() as a function of the store it starts from.        *)
(***************************************************************************)
RECURSIVE RunLoop(_, _, _, _)
\* the loop of pass `step` over the fetched rows, from row k on
RunLoop(step, S, fetched, k) ==
    IF k > Len(fetched) THEN S
    ELSE LET row == fetched[k]
             S1  == IF step = "validate" THEN validate_row(S, row)
                    ELSE IF step = "manager" THEN manager_row(S, row)
                    ELSE supervisor_row(S, row)
         IN  RunLoop(step, S1, fetched, k + 1)

\* validate_manager_id_supervisor_id when no row raises
validate_manager_id_supervisor_id(S) == RunLoop("validate", S, validate_select(S), 1)

update_employees_manager_id(S) == RunLoop("manager", S, manager_select(S), 1)

update_employees_supervisor_id(S) == RunLoop("supervisor", S, supervisor_select(S), 1)

\* the committed store main() leaves behind when nothing interrupts it
main(S) ==
    LET s1 == validate_manager_id_supervisor_id(S)
    IN  IF ValidateRaises(S) THEN S
        ELSE IF TenureRaises(s1) THEN s1
        ELSE update_employees_supervisor_id(
                 update_employees_manager_id(update_employees_tenure(s1)))

(***************************************************************************)
(* Properties.                                                             *)
(***************************************************************************)
TypeOK ==
    /\ pc \in Running \cup {"main", "done", "failed", "aborted"}
    /\ DOMAIN db = DOMAIN disk
    /\ i \in 0..Len(rows)
    /\ committed \in 0..4

\* the level of the employee a link names; NoId when the link names no row
LevelOf(S, id) == IF id \in DOMAIN S THEN S[id].job_level ELSE NoId

\* C1: after a complete run every non-null manager_id names an employee one
\* level above the record and every non-null supervisor_id one two levels above
C1_LevelOffsetAfterRepair ==
    pc = "done" =>
        \A e \in DOMAIN disk :
            /\ disk[e].manager_id # NoId =>
                   LevelOf(disk, disk[e].manager_id) = disk[e].job_level + 1
            /\ disk[e].supervisor_id # NoId =>
                   LevelOf(disk, disk[e].supervisor_id) = disk[e].job_level + 2

\* a complete run that began with a manager link and a supervisor link at a
\* wrong level and ends with links of both kinds
C1_Witness ==
    /\ pc = "done"
    /\ \E e \in DOMAIN raw :
           /\ raw[e].manager_id # NoId
           /\ LevelOf(raw, raw[e].manager_id) # raw[e].job_level + 1
           /\ raw[e].supervisor_id # NoId
           /\ LevelOf(raw, raw[e].supervisor_id) # raw[e].job_level + 2
           /\ disk[e].manager_id # NoId
           /\ disk[e].supervisor_id # NoId

\* C2: after a complete run no level-5 record has a manager_id and no level-4
\* record has a supervisor_id, whatever the raw input held
C2_PolicyExclusion ==
    pc = "done" =>
        \A e \in DOMAIN disk :
            /\ disk[e].job_level = 5 => disk[e].manager_id = NoId
            /\ disk[e].job_level = 4 => disk[e].supervisor_id = NoId

\* a complete run whose input had a level-5 record with a manager link and a
\* level-4 record with a supervisor link
C2_Witness ==
    /\ pc = "done"
    /\ \E e \in DOMAIN raw : raw[e].job_level = 5 /\ raw[e].manager_id # NoId
    /\ \E e \in DOMAIN raw : raw[e].job_level = 4 /\ raw[e].supervisor_id # NoId

\* manager_id, supervisor_id and tenure_years of every record agree
SameRepairedFields(S, T) ==
    /\ DOMAIN S = DOMAIN T
    /\ \A e \in DOMAIN S :
           /\ S[e].manager_id = T[e].manager_id
           /\ S[e].supervisor_id = T[e].supervisor_id
           /\ S[e].tenure_years = T[e].tenure_years

\* C3: a second complete run, started from the store the first one left, ends
\* with the manager_id, supervisor_id and tenure_years the first one left
C3_RepairTwice ==
    pc = "done" => SameRepairedFields(main(disk), disk)

\* a complete run that cleared a raw link, assigned links and rewrote tenure
C3_Witness ==
    /\ pc = "done"
    /\ \E e \in DOMAIN raw : raw[e].manager_id # NoId /\ disk[e].manager_id # raw[e].manager_id
    /\ \E e \in DOMAIN raw : raw[e].supervisor_id = NoId /\ disk[e].supervisor_id # NoId
    /\ \E e \in DOMAIN raw : disk[e].tenure_years # raw[e].tenure_years
    /\ \E e \in DOMAIN raw : disk[e].joining_date # raw[e].joining_date


\* the candidate sequence of record e of store S at job_level + offset
CandidatesOf(S, e, offset) ==
    candidate_ids_for_level(S, S[e].department, S[e].job_level + offset,
                            S[e].region, S[e].location)

\* C4: when the Validate loop has run, a raw manager_id is still in place
\* exactly when it is in the record's candidate set at job_level + 1 and is
\* null otherwise; likewise, and independently, supervisor_id at job_level + 2
C4_ValidateKeepsCandidates ==
    pc = "commit1" =>
        \A e \in DOMAIN raw :
            /\ db[e].manager_id =
                   IF raw[e].manager_id \in SeqRange(CandidatesOf(db, e, 1))
                   THEN raw[e].manager_id ELSE NoId
            /\ db[e].supervisor_id =
                   IF raw[e].supervisor_id \in SeqRange(CandidatesOf(db, e, 2))
                   THEN raw[e].supervisor_id ELSE NoId

\* Validate has cleared the manager link of a record and kept its supervisor
\* link, and kept the manager link of another record
C4_Witness ==
    /\ pc = "commit1"
    /\ \E e \in DOMAIN raw :
           /\ raw[e].manager_id # NoId /\ db[e].manager_id = NoId
           /\ raw[e].supervisor_id # NoId /\ db[e].supervisor_id = raw[e].supervisor_id
    /\ \E e \in DOMAIN raw :
           raw[e].manager_id # NoId /\ db[e].manager_id = raw[e].manager_id

\* the link col of record e breaks the level-offset rule: it names no row, or
\* a row that is not offset levels above e
LevelViolation(S, e, col, offset) ==
    /\ S[e][col] # NoId
    /\ LevelOf(S, S[e][col]) # S[e].job_level + offset

LevelViolations(S, col, offset) == {e \in DOMAIN S : LevelViolation(S, e, col, offset)}

\* the raw links of column col that are null once Validate has run
ClearedLinks(col) == {e \in DOMAIN raw : raw[e][col] # NoId /\ db[e][col] = NoId}

\* C5 as stated: Validate clears exactly the raw links that break the
\* level-offset rule, and the cleared counts are the numbers of such links
C5_ClearsExactlyLevelViolations ==
    pc = "commit1" =>
        /\ ClearedLinks("manager_id") = LevelViolations(raw, "manager_id", 1)
        /\ ClearedLinks("supervisor_id") = LevelViolations(raw, "supervisor_id", 2)
        /\ cleared_mgr = Cardinality(LevelViolations(raw, "manager_id", 1))
        /\ cleared_sup = Cardinality(LevelViolations(raw, "supervisor_id", 2))

\* C5 amended: Validate clears every raw link that breaks the level-offset
\* rule, the links it clears beyond those are links at the right level that
\* are outside the record's candidate set, and the cleared counts are the
\* numbers of links cleared
C5_ClearsEveryLevelViolation ==
    pc = "commit1" =>
        /\ LevelViolations(raw, "manager_id", 1) \subseteq ClearedLinks("manager_id")
        /\ LevelViolations(raw, "supervisor_id", 2) \subseteq ClearedLinks("supervisor_id")
        /\ \A e \in ClearedLinks("manager_id") \ LevelViolations(raw, "manager_id", 1) :
               raw[e].manager_id \notin SeqRange(CandidatesOf(raw, e, 1))
        /\ \A e \in ClearedLinks("supervisor_id") \ LevelViolations(raw, "supervisor_id", 2) :
               raw[e].supervisor_id \notin SeqRange(CandidatesOf(raw, e, 2))
        /\ cleared_mgr = Cardinality(ClearedLinks("manager_id"))
        /\ cleared_sup = Cardinality(ClearedLinks("supervisor_id"))
        /\ cleared_mgr >= Cardinality(LevelViolations(raw, "manager_id", 1))
        /\ cleared_sup >= Cardinality(LevelViolations(raw, "supervisor_id", 2))

\* Validate has cleared a link that breaks the level-offset rule and a link
\* that does not
C5_Witness ==
    /\ pc = "commit1"
    /\ LevelViolations(raw, "manager_id", 1) # {}
    /\ ClearedLinks("manager_id") \ LevelViolations(raw, "manager_id", 1) # {}
    /\ ClearedLinks("supervisor_id") \ LevelViolations(raw, "supervisor_id", 2) # {}

\* the arguments the finder is asked with: every department, region and
\* location of the input, every level a pass can target
QueryLevels == (ApexLevel - 2)..(ApexLevel + 2)

\* the rows of store S that pass the filter of tier 1, 2, 3
\* (an unknown attribute, of the row or of the filter, is equal to nothing)
Known(a, b) == a # NullText /\ b # NullText /\ a = b

Filter1(S, d, l, r, loc) ==
    {e \in DOMAIN S : Known(S[e].department, d) /\ S[e].job_level = l
                      /\ Known(S[e].region, r) /\ Known(S[e].location, loc)}
Filter2(S, d, l, r) ==
    {e \in DOMAIN S : Known(S[e].department, d) /\ S[e].job_level = l
                      /\ Known(S[e].region, r)}
Filter3(S, d, l) ==
    {e \in DOMAIN S : Known(S[e].department, d) /\ S[e].job_level = l}

FinderContract(S, d, l, r, loc) ==
    LET res == candidate_ids_for_level(S, d, l, r, loc)
        ids == SeqRange(res)
        f1  == Filter1(S, d, l, r, loc)
        f2  == Filter2(S, d, l, r)
        f3  == Filter3(S, d, l)
    IN  /\ Len(res) = Cardinality(ids)
        /\ f1 # {} => ids = f1
        /\ (f1 = {} /\ f2 # {}) => ids = f2
        /\ (f1 = {} /\ f2 = {}) => ids = f3
        /\ \A e \in ids : S[e].job_level = l /\ S[e].department = d
        /\ (ids = {}) <=> (f1 = {} /\ f2 = {} /\ f3 = {})

\* C6: the finder returns exactly the rows of the first non-empty of the
\* three filters, never rows of a wider filter with them, all of them at the
\* target level in the department, and nothing only when all three are empty
C6_FinderFirstNonEmptyTier ==
    (pc \in {"validate_loop", "manager_loop", "supervisor_loop"} /\ i = 0) =>
        \A d \in Departments, l \in QueryLevels, r \in Regions, loc \in Locations :
            FinderContract(db, d, l, r, loc)

\* Manager fill is at a row whose tier 1 is empty, whose tier 2 is not, and
\* whose tier 3 has rows that tier 2 has not
C6_Witness ==
    /\ pc = "manager_loop" /\ i = 0 /\ i < Len(rows)
    /\ LET row == rows[i + 1]
           l   == row.job_level + 1
       IN  /\ Filter1(db, row.department, l, row.region, row.location) = {}
           /\ Filter2(db, row.department, l, row.region) # {}
           /\ Filter3(db, row.department, l) # Filter2(db, row.department, l, row.region)

Reverse(q) == [k \in 1..Len(q) |-> q[Len(q) + 1 - k]]

\* the number of records whose column col is c
Load(S, col, c) == Cardinality({e \in DOMAIN S : S[e][col] = c})

BalancerContract(S, q, col) ==
    LET best == choose_least_loaded(S, q, col)
    IN  IF q = << >> THEN best = NoId
        ELSE \E k \in DOMAIN q :
                 /\ q[k] = best
                 /\ \A j \in DOMAIN q : Load(S, col, q[j]) >= Load(S, col, best)
                 /\ \A j \in 1..(k - 1) : Load(S, col, q[j]) > Load(S, col, best)

\* C7: of a candidate sequence the balancer returns a candidate of minimal
\* count in the target column, the first such in the sequence, and nothing of
\* the empty sequence; the sequences are those the finder returns for the
\* records of the store in the running fill pass, and these reversed
C7_LeastLoadedFirst ==
    \A pass \in { << "manager_loop", "manager_id", 1 >>,
                   << "supervisor_loop", "supervisor_id", 2 >> } :
        pc = pass[1] =>
            \A e \in DOMAIN db :
                LET q == CandidatesOf(db, e, pass[3])
                IN  /\ BalancerContract(db, q, pass[2])
                    /\ BalancerContract(db, Reverse(q), pass[2])

\* Manager fill is at a row whose first candidate has more reports than its
\* second
C7_Witness ==
    /\ pc = "manager_loop" /\ i < Len(rows)
    /\ LET q == CandidatesOf(db, rows[i + 1].employee_id, 1)
       IN  /\ Len(q) >= 2
           /\ rows[i + 1].job_level # ApexLevel
           /\ Load(db, "manager_id", q[1]) > Load(db, "manager_id", q[2])


\* C8: after a complete run a record below level 5 has no manager_id exactly
\* when the finder has no candidate for it at job_level + 1, which is when no
\* row of its department is at that level; likewise a record not at level 4,
\* supervisor_id and job_level + 2
C8_NullIffNoCandidate ==
    pc = "done" =>
        \A e \in DOMAIN disk :
            /\ disk[e].job_level # 5 =>
                   /\ (disk[e].manager_id = NoId) <=> (CandidatesOf(disk, e, 1) = << >>)
                   /\ (disk[e].manager_id = NoId) <=>
                          (Filter3(disk, disk[e].department, disk[e].job_level + 1) = {})
            /\ disk[e].job_level # 4 =>
                   /\ (disk[e].supervisor_id = NoId) <=> (CandidatesOf(disk, e, 2) = << >>)
                   /\ (disk[e].supervisor_id = NoId) <=>
                          (Filter3(disk, disk[e].department, disk[e].job_level + 2) = {})

\* a complete run that leaves a record below level 5 without a manager and
\* another with one, a record not at level 4 without a supervisor and another
\* with one that it did not have in the input
C8_Witness ==
    /\ pc = "done"
    /\ \E e \in DOMAIN disk : disk[e].job_level # 5 /\ disk[e].manager_id = NoId
    /\ \E e \in DOMAIN disk : raw[e].manager_id = NoId /\ disk[e].manager_id # NoId
    /\ \E e \in DOMAIN disk : disk[e].job_level # 4 /\ disk[e].supervisor_id = NoId
    /\ \E e \in DOMAIN disk : raw[e].supervisor_id = NoId /\ disk[e].supervisor_id # NoId

\* the raw manager link of record e names no row one level above e
Drifted(e) ==
    /\ raw[e].manager_id # NoId
    /\ LevelOf(raw, raw[e].manager_id) # raw[e].job_level + 1

\* C9: a raw manager link to a row at the wrong level is null once Validate
\* has run and stays null in the committed store until Manager fill; Manager
\* fill fetches the record among its rows; and once Manager fill is committed
\* the record has a manager from its candidate set, one level above it, if the
\* set is not empty, and none if it is
C9_DriftRepair ==
    \A e \in DOMAIN raw :
        Drifted(e) =>
            /\ pc \in {"commit1", "tenure", "commit2", "manager"} => db[e].manager_id = NoId
            /\ committed \in {1, 2} => disk[e].manager_id = NoId
            /\ pc = "manager_loop" => \E k \in DOMAIN rows : rows[k].employee_id = e
            /\ committed >= 3 =>
                   IF CandidatesOf(raw, e, 1) # << >>
                   THEN /\ disk[e].manager_id \in SeqRange(CandidatesOf(raw, e, 1))
                        /\ LevelOf(disk, disk[e].manager_id) = raw[e].job_level + 1
                        /\ disk[e].manager_id # raw[e].manager_id
                   ELSE disk[e].manager_id = NoId

\* Manager fill is committed and a record whose raw manager link was at the
\* wrong level has a manager
C9_Witness ==
    /\ committed >= 3
    /\ \E e \in DOMAIN raw : Drifted(e) /\ disk[e].manager_id # NoId

FrameFields ==
    {"department", "job_level", "region", "location", "performance_rating", "is_active"}

\* S has the records of T, with the columns of T and the frame fields as in T
SameFrame(S, T) ==
    /\ DOMAIN S = DOMAIN T
    /\ \A e \in DOMAIN T :
           /\ DOMAIN S[e] = DOMAIN T[e]
           /\ \A f \in FrameFields : S[e][f] = T[e][f]

\* C10: at every point of a run, complete or aborted, the store has the
\* employee ids of the input and every record its input department,
\* job_level, region, location, performance_rating and is_active
C10_Frame == SameFrame(db, raw) /\ SameFrame(disk, raw)

\* a run aborted after the commit of Manager fill, with links cleared or
\* assigned and tenure and dates rewritten in the committed store
C10_Witness ==
    /\ pc = "aborted" /\ committed = 3
    /\ \E e \in DOMAIN raw : disk[e].manager_id # raw[e].manager_id
    /\ \E e \in DOMAIN raw : disk[e].supervisor_id # raw[e].supervisor_id
    /\ \E e \in DOMAIN raw : disk[e].tenure_years # raw[e].tenure_years
    /\ \E e \in DOMAIN raw : disk[e].joining_date # raw[e].joining_date
    /\ \E e \in DOMAIN raw : disk[e].exit_date # raw[e].exit_date


\* the store after the first n passes of main() have run on S, each to its end
AfterPasses(S, n) ==
    LET s1 == validate_manager_id_supervisor_id(S)
        s2 == update_employees_tenure(s1)
        s3 == update_employees_manager_id(s2)
    IN  IF n = 0 THEN S
        ELSE IF n = 1 THEN s1
        ELSE IF n = 2 THEN s2
        ELSE IF n = 3 THEN s3
        ELSE update_employees_supervisor_id(s3)

\* the number of commits made when main() is at a given place
CommitsAt(place) ==
    IF place \in {"validate", "validate_loop", "commit1"} THEN 0
    ELSE IF place \in {"tenure", "commit2"} THEN 1
    ELSE IF place \in {"manager", "manager_loop", "commit3"} THEN 2
    ELSE IF place \in {"supervisor", "supervisor_loop", "commit4"} THEN 3
    ELSE 4

\* C11: the passes run in the order Validate, Tenure, Manager fill, Supervisor
\* fill: a pass is running only when exactly the passes before it are
\* committed, and when a pass is about to read, nothing is uncommitted and the
\* store it reads is the input with every earlier pass applied, in that order
C11_PassOrder ==
    /\ pc \in Running \cup {"done"} => committed = CommitsAt(pc)
    /\ pc \in {"validate", "tenure", "manager", "supervisor"} =>
           /\ db = disk
           /\ db = AfterPasses(raw, CommitsAt(pc))

\* Supervisor fill is about to read a store in which Validate cleared a link,
\* Tenure rewrote a date and Manager fill assigned a link
C11_Witness ==
    /\ pc = "supervisor"
    /\ \E e \in DOMAIN raw :
           /\ raw[e].manager_id # NoId
           /\ AfterPasses(raw, 1)[e].manager_id = NoId
           /\ db[e].manager_id # NoId
    /\ \E e \in DOMAIN raw : db[e].joining_date # raw[e].joining_date
    /\ \E e \in DOMAIN raw : db[e].tenure_years # raw[e].tenure_years

\* C12: a run that was interrupted or that aborted leaves as the persisted
\* store the store as it was right after its last commit, the input store when
\* it made none: nothing of the pass in progress is persisted
C12_AbortKeepsLastCommit ==
    pc \in {"aborted", "failed"} =>
        /\ disk = AfterPasses(raw, committed)
        /\ db = disk

\* a run aborted after the commit of Tenure and before the commit of Manager
\* fill, a pass that assigns links in this store
C12_Witness ==
    /\ pc = "aborted" /\ committed = 2
    /\ disk # raw
    /\ \E e \in DOMAIN raw : AfterPasses(raw, 3)[e].manager_id # disk[e].manager_id

\* C13: a run started when the store does not exist fails before any pass
\* has run: it is at its start or has failed, it has fetched no row and made
\* no commit, and there is still no store; and only such a run fails
C13_MissingStoreIsFatal ==
    /\ raw = NoStore =>
           /\ pc \in {"main", "failed"}
           /\ ~exists
           /\ disk = NoStore /\ db = NoStore
           /\ rows = << >> /\ i = 0
           /\ committed = 0
    /\ pc = "failed" => raw = NoStore

\* the run has failed on the missing store
C13_Witness ==
    /\ pc = "failed"
    /\ ~exists
    /\ raw = NoStore

\* joining_date, exit_date and tenure_years of every record agree
SameTenureFields(S, T) ==
    /\ DOMAIN S = DOMAIN T
    /\ \A e \in DOMAIN S :
           /\ S[e].joining_date = T[e].joining_date
           /\ S[e].exit_date = T[e].exit_date
           /\ S[e].tenure_years = T[e].tenure_years

\* some joining_date of S does not normalize
JoiningDateFails(S) == \E e \in DOMAIN S : parse_date(S[e].joining_date) = NullDate

\* the places of main() from the Tenure pass on, but for the inside of the
\* loops of the fill passes, which are entered from "manager" and "supervisor"
FromTenureOn ==
    {"tenure", "commit2", "manager", "commit3", "supervisor", "commit4", "done", "aborted"}

\* C14: when a joining_date of the input does not normalize, the run does not
\* get past the Tenure pass: it is never where Tenure has returned nor where
\* a fill pass starts or has returned; joining_date, exit_date and
\* tenure_years stay as in the input; at most the commit of Validate is
\* made, and the run that stopped in the Tenure pass leaves the store
\* Validate committed
C14_BadJoiningDateStopsTenure ==
    (pc \in FromTenureOn /\ JoiningDateFails(raw)) =>
        /\ pc \in {"tenure", "aborted"}
        /\ committed <= 1
        /\ SameTenureFields(db, raw) /\ SameTenureFields(disk, raw)
        /\ (pc = "aborted" /\ committed = 1) =>
               disk = validate_manager_id_supervisor_id(raw)

\* a run stopped in the Tenure pass by a joining_date that does not
\* normalize, after Validate cleared a link and committed
C14_Witness ==
    /\ pc = "aborted" /\ committed = 1
    /\ JoiningDateFails(raw)
    /\ \E e \in DOMAIN raw : raw[e].manager_id # NoId /\ disk[e].manager_id = NoId
    /\ \E e \in DOMAIN raw : parse_date(raw[e].joining_date) # NullDate

\* the canonical text of a date: YYYY-MM-DD, four, two and two digits
Canonical(dt) == Pad4(dt.y) \o << "-" >> \o Pad2(dt.m) \o << "-" >> \o Pad2(dt.d)

\* the text is null or one of the texts that stand for no date
IsBlank(value) ==
    value = NullDate \/ Strip(value) = << >> \/ Upper(Strip(value)) \in NaTokens

\* the formats, in the order tried, that parse the text
ParsingFormats(value) ==
    {k \in DOMAIN Formats : strptime(Strip(value), Formats[k]) # NoDate}

\* the first 10 characters of the text are a date in the first format
HeadParses(value) ==
    /\ Len(Strip(value)) >= 10
    /\ strptime(SubSeq(Strip(value), 1, 10), FmtIso) # NoDate

\* date normalization as the claim states it
Normalized(value) ==
    IF IsBlank(value) THEN NullDate
    ELSE IF ParsingFormats(value) # {}
    THEN LET first == CHOOSE k \in ParsingFormats(value) :
                          \A j \in ParsingFormats(value) : k <= j
         IN  Canonical(strptime(Strip(value), Formats[first]))
    ELSE IF HeadParses(value) THEN SubSeq(Strip(value), 1, 10)
    ELSE NullDate

\* the text is a date in canonical form
IsCanonical(value) ==
    /\ value # NullDate
    /\ strptime(value, FmtIso) # NoDate
    /\ value = Canonical(strptime(value, FmtIso))

\* C16: parse_date returns the canonical form of the date under the first
\* format that parses the text, else the first 10 characters when these are
\* a date in the first format, else null, and null for a null or blank text
\* and for NA, N/A, NULL, NONE; of a canonical date it returns the date as it is
C16_NormalizeAsStated ==
    pc = "tenure" =>
        \A e \in DOMAIN db :
            \A value \in {db[e].joining_date, db[e].exit_date} :
                /\ parse_date(value) = Normalized(value)
                /\ IsCanonical(value) => parse_date(value) = value

\* the text normalizes: it is not blank and a format, or its head, parses
Normalizes(value) ==
    ~IsBlank(value) /\ (ParsingFormats(value) # {} \/ HeadParses(value))

\* the date a text that normalizes denotes
DateOf(value) ==
    IF ParsingFormats(value) # {}
    THEN strptime(Strip(value), Formats[CHOOSE k \in ParsingFormats(value) :
                                            \A j \in ParsingFormats(value) : k <= j])
    ELSE strptime(SubSeq(Strip(value), 1, 10), FmtIso)

\* tenure as the claim states it, in hundredths of a year: the days from
\* the joining date to the exit date, or to today without one, by 365.25
StatedTenure(row) ==
    LET start == DateOf(row.joining_date)
        end   == IF Normalizes(row.exit_date) THEN DateOf(row.exit_date) ELSE Today
    IN  RoundTenure(DaysFromCivil(end.y, end.m, end.d)
                        - DaysFromCivil(start.y, start.m, start.d))

\* C15: when every joining_date normalizes, compute_tenure raises on no row
\* and the Tenure pass sets every tenure_years to the days between the joining date and the
\* exit date, or today without one, divided by 365.25 and rounded to two
\* decimals: 4.0 for a record that joined on 2020-01-01 and has not left
C15_TenureAsStated ==
    /\ (pc = "tenure" /\ \A e \in DOMAIN db : Normalizes(db[e].joining_date)) =>
           ~TenureRaises(db)
    /\ pc = "commit2" =>
           \A e \in DOMAIN db :
               /\ db[e].tenure_years = StatedTenure(raw[e])
               /\ (raw[e].joining_date = MkDate("ISO", 2020, 1, 1)
                      /\ raw[e].exit_date = NullDate) => db[e].tenure_years = 400

\* the Tenure pass on S: S itself when compute_tenure raises, as nothing is
\* written then
TenurePass(S) == IF TenureRaises(S) THEN S ELSE update_employees_tenure(S)

\* C17: on the store a pass of main() starts on, and on the store main()
\* leaves, each of the four passes run twice gives the store it gives run
\* once; a second Validate leaves null every link the first one left null
\* and keeps every link the first one kept
C17_EachPassIdempotent ==
    pc \in {"validate", "tenure", "manager", "supervisor", "done"} =>
        LET v == validate_manager_id_supervisor_id(db)
            t == TenurePass(db)
            m == update_employees_manager_id(db)
            u == update_employees_supervisor_id(db)
        IN  /\ validate_manager_id_supervisor_id(v) = v
            /\ TenurePass(t) = t
            /\ update_employees_manager_id(m) = m
            /\ update_employees_supervisor_id(u) = u
            /\ \A e \in DOMAIN db :
                   LET w == validate_manager_id_supervisor_id(v)
                   IN  /\ v[e].manager_id = NoId => w[e].manager_id = NoId
                       /\ v[e].supervisor_id = NoId => w[e].supervisor_id = NoId
                       /\ v[e].manager_id # NoId => w[e].manager_id = v[e].manager_id
                       /\ v[e].supervisor_id # NoId =>
                              w[e].supervisor_id = v[e].supervisor_id

\* C18: the store a complete run leaves is a function of the store it
\* started from and of the date: every complete run from one input store
\* ends with the same manager_id, supervisor_id, tenure_years and dates in
\* every record, whichever candidates were equally loaded on the way
C18_Deterministic ==
    pc = "done" => (disk = main(raw) /\ db = disk)

\* a complete run that gave a record without manager the first of several
\* candidates, which ends with one report more than the second
C18_Witness ==
    /\ pc = "done"
    /\ \E e \in DOMAIN raw :
           LET q == CandidatesOf(raw, e, 1)
           IN  /\ raw[e].manager_id = NoId
               /\ Len(q) >= 2
               /\ disk[e].manager_id = q[1]
               /\ Load(disk, "manager_id", q[1]) = Load(disk, "manager_id", q[2]) + 1

\* the number of records other than r whose column col is c: the count of c
\* in the store as it was before r, whose col was null, was given a leader
LoadBefore(S, col, r, c) == Cardinality({e \in DOMAIN S \ {r} : S[e][col] = c})

\* the record the running fill pass has just processed was given, if any, a
\* candidate that no other of its candidates had fewer records of, in the
\* store of that moment
LeastLoadedWhenAssigned(col, offset) ==
    LET r == rows[i].employee_id
        m == db[r][col]
    IN  m # NoId =>
            /\ m \in SeqRange(CandidatesOf(db, r, offset))
            /\ \A c \in SeqRange(CandidatesOf(db, r, offset)) :
                   LoadBefore(db, col, r, c) >= LoadBefore(db, col, r, m)

\* C19: when Manager fill gives record r the manager m, no candidate of r has
\* fewer records with manager_id equal to it than m has, in the store with
\* the links of the input and the links given earlier in the pass; likewise
\* Supervisor fill and supervisor_id
C19_LiveLoadCounts ==
    /\ (pc = "manager_loop" /\ i >= 1) => LeastLoadedWhenAssigned("manager_id", 1)
    /\ (pc = "supervisor_loop" /\ i >= 1) => LeastLoadedWhenAssigned("supervisor_id", 2)

\* Manager fill has just given a record a candidate other than its first,
\* which had no more reports than the given one when the pass started
C19_Witness ==
    /\ pc = "manager_loop" /\ i >= 2
    /\ LET r == rows[i].employee_id
           q == CandidatesOf(db, r, 1)
       IN  /\ db[r].manager_id # NoId
           /\ db[r].manager_id # q[1]
           /\ Load(disk, "manager_id", q[1]) <= Load(disk, "manager_id", db[r].manager_id)
           /\ \E e \in DOMAIN db : disk[e].manager_id = NoId /\ db[e].manager_id = q[1]

\* leader is in the first non-empty tier of record e of S at job_level + offset
InFirstTier(S, e, leader, offset) ==
    LET f1 == Filter1(S, S[e].department, S[e].job_level + offset, S[e].region, S[e].location)
        f2 == Filter2(S, S[e].department, S[e].job_level + offset, S[e].region)
        f3 == Filter3(S, S[e].department, S[e].job_level + offset)
    IN  /\ f1 # {} => leader \in f1
        /\ (f1 = {} /\ f2 # {}) => leader \in f2
        /\ (f1 = {} /\ f2 = {}) => leader \in f3

\* C20: after a complete run every manager_id is in the record's first
\* non-empty tier at job_level + 1 and every supervisor_id in the first
\* non-empty tier at job_level + 2: region and location shared if an employee
\* of the department at that level shares both, else the region if one
\* shares it, else the department and the level alone
C20_LeaderFromFirstTier ==
    pc = "done" =>
        \A e \in DOMAIN disk :
            /\ disk[e].manager_id # NoId => InFirstTier(disk, e, disk[e].manager_id, 1)
            /\ disk[e].supervisor_id # NoId => InFirstTier(disk, e, disk[e].supervisor_id, 2)

\* a complete run that kept or gave a manager out of a first tier that is
\* not the whole third tier, gave another record a manager out of the third
\* tier, both narrower tiers being empty, and cleared a raw manager link that
\* was in the third tier and not in the first non-empty one
C20_Witness ==
    /\ pc = "done"
    /\ \E e \in DOMAIN disk :
           /\ disk[e].manager_id # NoId
           /\ Filter1(disk, disk[e].department, disk[e].job_level + 1,
                      disk[e].region, disk[e].location) # {}
           /\ Filter1(disk, disk[e].department, disk[e].job_level + 1,
                      disk[e].region, disk[e].location)
                  # Filter3(disk, disk[e].department, disk[e].job_level + 1)
    /\ \E e \in DOMAIN disk :
           /\ disk[e].manager_id # NoId
           /\ Filter2(disk, disk[e].department, disk[e].job_level + 1, disk[e].region) = {}
    /\ \E e \in DOMAIN disk :
           /\ raw[e].manager_id \in Filter3(raw, raw[e].department, raw[e].job_level + 1)
           /\ ~InFirstTier(raw, e, raw[e].manager_id, 1)

\* the records a fill pass over S seeks a leader for: its SELECT fetches them,
\* it does not skip them, and they have candidates
Seekers(S, col, offset) ==
    {e \in DOMAIN S :
        /\ S[e][col] = NoId
        /\ FillLevel(S[e]) + offset # ApexLevel + 1
        /\ candidate_ids_for_level(S, S[e].department, FillLevel(S[e]) + offset,
                                   S[e].region, S[e].location) # << >>}

SeekerCandidates(S, e, offset) ==
    candidate_ids_for_level(S, S[e].department, FillLevel(S[e]) + offset,
                            S[e].region, S[e].location)

\* exactly two records seek a leader in the pass over S, among the same two
\* or more candidates, which all have the same count of col in S
TwoPeers(S, col, offset) ==
    \E a, b \in Seekers(S, col, offset) :
        /\ a # b
        /\ Seekers(S, col, offset) = {a, b}
        /\ SeekerCandidates(S, a, offset) = SeekerCandidates(S, b, offset)
        /\ Len(SeekerCandidates(S, a, offset)) >= 2
        /\ \A c, d \in SeqRange(SeekerCandidates(S, a, offset)) :
               Load(S, col, c) = Load(S, col, d)

\* the fill passes over the rows of their SELECT taken last row first
ManagerFillReversed(S) == RunLoop("manager", S, Reverse(manager_select(S)), 1)

SupervisorFillReversed(S) == RunLoop("supervisor", S, Reverse(supervisor_select(S)), 1)

\* the candidates of the row the running fill pass is at number two or more
\* and all have the same count of col
TiedCandidates(col, offset) ==
    LET row == rows[i + 1]
        q   == candidate_ids_for_level(db, row.department, FillLevel(row) + offset,
                                       row.region, row.location)
    IN  /\ Len(q) >= 2
        /\ \A c, d \in SeqRange(q) : Load(db, col, c) = Load(db, col, d)

\* the leader the balancer takes from the candidates of the row the running
\* fill pass is at differs from the one it takes from them in reverse order
CandidateOrderMatters(col, offset) ==
    LET row == rows[i + 1]
        q   == candidate_ids_for_level(db, row.department, FillLevel(row) + offset,
                                       row.region, row.location)
    IN  choose_least_loaded(db, q, col) # choose_least_loaded(db, Reverse(q), col)

\* C21: the order of processing inside a fill pass is observable.  On a store
\* where two records seek a manager among the same equally loaded candidates,
\* Manager fill leaves manager_id assignments that differ, for some record,
\* from those the same pass leaves when it takes its rows in reverse order;
\* likewise Supervisor fill and supervisor_id; and the balancer takes a
\* different leader from tied candidates when their sequence is reversed
C21_OrderObservable ==
    /\ (pc = "commit3" /\ TwoPeers(disk, "manager_id", 1)) =>
           \E e \in DOMAIN db : db[e].manager_id # ManagerFillReversed(disk)[e].manager_id
    /\ (pc = "commit4" /\ TwoPeers(disk, "supervisor_id", 2)) =>
           \E e \in DOMAIN db :
               db[e].supervisor_id # SupervisorFillReversed(disk)[e].supervisor_id
    /\ (pc = "manager_loop" /\ i < Len(rows) /\ FillLevel(rows[i + 1]) # ApexLevel
            /\ TiedCandidates("manager_id", 1)) => CandidateOrderMatters("manager_id", 1)
    /\ (pc = "supervisor_loop" /\ i < Len(rows)
            /\ FillLevel(rows[i + 1]) # NoSupervisorLevel
            /\ TiedCandidates("supervisor_id", 2)) => CandidateOrderMatters("supervisor_id", 2)

\* Manager fill has run over a store with two such records and gave the first
\* of them the manager the reversed pass gives the second
C21_Witness ==
    /\ pc = "commit3" /\ TwoPeers(disk, "manager_id", 1)
    /\ \E a, b \in Seekers(disk, "manager_id", 1) :
           /\ a < b
           /\ db[a].manager_id # db[b].manager_id
           /\ db[a].manager_id = ManagerFillReversed(disk)[b].manager_id
           /\ db[b].manager_id = ManagerFillReversed(disk)[a].manager_id

\* the text is not blank and neither a format nor its first 10 characters
\* parse it
Unparseable(value) ==
    ~IsBlank(value) /\ ParsingFormats(value) = {} /\ ~HeadParses(value)

\* tenure up to the current date, in hundredths of a year, of a record that
\* joined on the date the text denotes
TenureToToday(joining) ==
    LET start == DateOf(joining)
    IN  RoundTenure(DaysFromCivil(Today.y, Today.m, Today.d)
                        - DaysFromCivil(start.y, start.m, start.d))

\* C22: compute_tenure does not raise on a record whose joining_date
\* normalizes and whose exit_date is unparseable, and the Tenure pass stores
\* a null exit_date for it and the tenure from the joining date up to the
\* current date, the tenure it stores for the same record without exit_date
C22_UnparseableExitIsNull ==
    /\ pc = "tenure" =>
           \A e \in DOMAIN db :
               (Normalizes(db[e].joining_date) /\ Unparseable(db[e].exit_date)) =>
                   ~compute_tenure_raises(parse_date(db[e].joining_date),
                                          parse_date(db[e].exit_date))
    /\ pc = "commit2" =>
           \A e \in DOMAIN db :
               Unparseable(raw[e].exit_date) =>
                   /\ db[e].exit_date = NullDate
                   /\ db[e].tenure_years = TenureToToday(raw[e].joining_date)
                   /\ db[e].tenure_years =
                          update_employees_tenure(
                              [raw EXCEPT ![e].exit_date = NullDate])[e].tenure_years

\* every joining_date of S normalizes and every job_level is one of 1..5
WellFormed(S) ==
    \A e \in DOMAIN S :
        /\ Normalizes(S[e].joining_date)
        /\ S[e].job_level \in 1..ApexLevel

\* the employee_ids of the fetched rows
RowIds(q) == {q[k].employee_id : k \in DOMAIN q}

\* the loop of a pass is running over the rows its SELECT returned on the
\* store the pass started on, each of them once; the writes of the pass left
\* the rows still to come, and the records that are not in the list, as they
\* were
OverSnapshot(select) ==
    /\ rows = select
    /\ i \in 0..Len(rows)
    /\ \A j, k \in DOMAIN rows : rows[j].employee_id = rows[k].employee_id => j = k
    /\ \A k \in DOMAIN rows : k > i => db[rows[k].employee_id] = disk[rows[k].employee_id]
    /\ \A e \in DOMAIN db : e \notin RowIds(rows) => db[e] = disk[e]

\* C23: an uninterrupted run over a store whose joining dates normalize and
\* whose job_levels are in 1..5 does not abort and ends with four commits;
\* the loop of every pass runs over the rows fetched at the start of the
\* pass, one row a step, whatever links the pass has cleared or assigned: a
\* row of the list that Validate has processed keeps its place, and a row
\* that Manager fill or Supervisor fill has processed has its leader unless
\* it is skipped or has no candidate
C23_RunsToCompletion ==
    /\ (exists /\ WellFormed(raw)) => pc \notin {"aborted", "failed"}
    /\ pc = "done" => committed = 4
    /\ pc = "validate_loop" => OverSnapshot(validate_select(disk))
    /\ pc = "manager_loop" =>
           /\ OverSnapshot(manager_select(disk))
           /\ \A k \in 1..i :
                  db[rows[k].employee_id].manager_id = ManagerFor(disk, rows[k])
                      \/ db[rows[k].employee_id].manager_id # NoId
    /\ pc = "supervisor_loop" =>
           /\ OverSnapshot(supervisor_select(disk))
           /\ \A k \in 1..i :
                  db[rows[k].employee_id].supervisor_id = SupervisorFor(disk, rows[k])
                      \/ db[rows[k].employee_id].supervisor_id # NoId

\* the link names a record of the store other than e, of the department of e
SoundLink(S, e, link) ==
    /\ link \in DOMAIN S
    /\ link # e
    /\ S[link].department = S[e].department

\* C24: after a complete run every manager_id and every supervisor_id names
\* a record of the store, of the same department as the referencing record
\* and other than it; and when Validate has run, every link of the input
\* that names no record, a record of another department or the record
\* itself is null
C24_LinksAreSound ==
    /\ pc = "done" =>
           \A e \in DOMAIN disk :
               /\ disk[e].manager_id # NoId => SoundLink(disk, e, disk[e].manager_id)
               /\ disk[e].supervisor_id # NoId => SoundLink(disk, e, disk[e].supervisor_id)
    /\ pc = "commit1" =>
           \A e \in DOMAIN raw :
               /\ (raw[e].manager_id # NoId /\ ~SoundLink(raw, e, raw[e].manager_id)) =>
                      db[e].manager_id = NoId
               /\ (raw[e].supervisor_id # NoId /\ ~SoundLink(raw, e, raw[e].supervisor_id)) =>
                      db[e].supervisor_id = NoId

\* a complete run over a store that held a link to the record itself, a link
\* to no row and a link to a row of another department one level up, and
\* that gave the first of these records another manager
C24_Witness ==
    /\ pc = "done"
    /\ \E e \in DOMAIN raw : raw[e].manager_id = e /\ disk[e].manager_id \notin {NoId, e}
    /\ \E e \in DOMAIN raw : raw[e].supervisor_id # NoId /\ raw[e].supervisor_id \notin DOMAIN raw
    /\ \E e \in DOMAIN raw :
           /\ raw[e].manager_id \in DOMAIN raw
           /\ raw[raw[e].manager_id].department # raw[e].department
           /\ raw[raw[e].manager_id].job_level = raw[e].job_level + 1
           /\ disk[e].manager_id # raw[e].manager_id

\* column col of no record changes in the step
KeepsColumn(col) == \A e \in DOMAIN db : db'[e][col] = db[e][col]

\* column col changes in the step only from a link to null
OnlyClears(col) ==
    \A e \in DOMAIN db :
        db'[e][col] # db[e][col] => (db[e][col] # NoId /\ db'[e][col] = NoId)

\* column col changes in the step only from null to a link, and a link the
\* pass started with is still in place
OnlyFills(col) ==
    \A e \in DOMAIN db :
        /\ db'[e][col] # db[e][col] => (db[e][col] = NoId /\ db'[e][col] # NoId)
        /\ disk[e][col] # NoId => db'[e][col] = disk[e][col]

\* what a step of a pass that is not rolled back may change
PassFrame ==
    /\ pc = "validate_loop" => OnlyClears("manager_id") /\ OnlyClears("supervisor_id")
    /\ pc = "tenure" => KeepsColumn("manager_id") /\ KeepsColumn("supervisor_id")
    /\ pc = "manager_loop" => OnlyFills("manager_id") /\ KeepsColumn("supervisor_id")
    /\ pc = "supervisor_loop" => OnlyFills("supervisor_id") /\ KeepsColumn("manager_id")

\* C25: a step of Validate changes a link only from non-null to null; the
\* Tenure pass changes no manager_id and no supervisor_id; a step of Manager
\* fill changes manager_id only from null to non-null, leaves every
\* manager_id that was non-null when the pass started and changes no
\* supervisor_id; a step of Supervisor fill does the same with the two
\* columns exchanged
C25_PassFrames == [][pc' # "aborted" => PassFrame]_vars

\* Supervisor fill has given a record a supervisor and has left in place a
\* manager_id and a supervisor_id that were there when it started, after
\* Validate cleared a link of the input and Manager fill gave a manager
C25_Witness ==
    /\ pc = "supervisor_loop" /\ i >= 1
    /\ \E e \in DOMAIN db : disk[e].supervisor_id = NoId /\ db[e].supervisor_id # NoId
    /\ \E e \in DOMAIN db : disk[e].supervisor_id # NoId /\ db[e].supervisor_id = disk[e].supervisor_id
    /\ \E e \in DOMAIN db : raw[e].manager_id # NoId /\ db[e].manager_id # raw[e].manager_id
    /\ \E e \in DOMAIN db : raw[e].manager_id = NoId /\ db[e].manager_id # NoId

\* the sequences that hold the elements of q in some order
Orderings(q) ==
    {[k \in DOMAIN q |-> q[f[k]]] :
        f \in {g \in [DOMAIN q -> DOMAIN q] : \A j, k \in DOMAIN q : g[j] = g[k] => j = k}}

\* the candidates of every record of S at both offsets are those it has in T
SameCandidates(S, T) ==
    \A e \in DOMAIN S :
        /\ CandidatesOf(S, e, ManagerOffset) = CandidatesOf(T, e, ManagerOffset)
        /\ CandidatesOf(S, e, SupervisorOffset) = CandidatesOf(T, e, SupervisorOffset)

\* C26: the store Validate leaves is the one its loop leaves over the
\* fetched rows taken in any order; validating one row first changes neither
\* the candidates of any record nor whether the links of another row are
\* cleared
C26_ValidateOrderFree ==
    /\ pc = "commit1" =>
           \A p \in Orderings(validate_select(raw)) :
               RunLoop("validate", raw, p, 1) = db
    /\ (pc = "validate_loop" /\ i = 0) =>
           \A j, k \in DOMAIN rows :
               j # k =>
                   LET S1 == validate_row(db, rows[j])
                   IN  /\ SameCandidates(S1, db)
                       /\ ClearsManager(S1, rows[k]) = ClearsManager(db, rows[k])
                       /\ ClearsSupervisor(S1, rows[k]) = ClearsSupervisor(db, rows[k])

\* Validate has run over two rows, cleared a link of the first and kept a
\* link of the second, which names the first
C26_Witness ==
    /\ pc = "commit1" /\ Len(rows) >= 2
    /\ \E j, k \in DOMAIN rows :
           /\ j # k
           /\ rows[k].manager_id = rows[j].employee_id
           /\ db[rows[k].employee_id].manager_id = rows[k].manager_id
           /\ rows[j].manager_id # NoId
           /\ db[rows[j].employee_id].manager_id = NoId

\* the records that seek a leader in the pass over S all have the same
\* candidates, and these have equal counts of col in S
OneEvenCandidateSet(S, col, offset) ==
    /\ Seekers(S, col, offset) # {}
    /\ \A a, b \in Seekers(S, col, offset) :
           SeekerCandidates(S, a, offset) = SeekerCandidates(S, b, offset)
    /\ \A a \in Seekers(S, col, offset) :
           \A c, d \in SeqRange(SeekerCandidates(S, a, offset)) :
               Load(S, col, c) = Load(S, col, d)

\* the counts of col of the candidates of the seekers of S differ by at most
\* one in T
Balanced(S, T, col, offset) ==
    \A a \in Seekers(S, col, offset) :
        \A c, d \in SeqRange(SeekerCandidates(S, a, offset)) :
            Load(T, col, c) - Load(T, col, d) \in {-1, 0, 1}

\* C27: when the records that Manager fill gives a manager all have the same
\* candidates and these have equal numbers of records with manager_id equal
\* to them when the pass starts, these numbers differ by at most 1 after
\* every step of the pass and when it ends; likewise Supervisor fill and
\* supervisor_id
C27_BalancedSpan ==
    /\ (pc \in {"manager_loop", "commit3"} /\ OneEvenCandidateSet(disk, "manager_id", 1)) =>
           Balanced(disk, db, "manager_id", 1)
    /\ (pc \in {"supervisor_loop", "commit4"}
            /\ OneEvenCandidateSet(disk, "supervisor_id", 2)) =>
           Balanced(disk, db, "supervisor_id", 2)

\* Supervisor fill has given two records, which have the same two
\* candidates, a supervisor each, and each candidate has one of them
C27_Witness ==
    /\ pc = "commit4" /\ OneEvenCandidateSet(disk, "supervisor_id", 2)
    /\ Cardinality(Seekers(disk, "supervisor_id", 2)) >= 2
    /\ \E a \in Seekers(disk, "supervisor_id", 2) :
           /\ Len(SeekerCandidates(disk, a, 2)) >= 2
           /\ \A c \in SeqRange(SeekerCandidates(disk, a, 2)) :
                  /\ Load(disk, "supervisor_id", c) = 0
                  /\ Load(db, "supervisor_id", c) = 1

\* the rows of S in department d at level l, and those of them in region r
DepartmentTier(S, d, l) ==
    {x \in DOMAIN S : S[x].department = d /\ S[x].job_level = l}

RegionTier(S, d, l, r) ==
    {x \in DOMAIN S : S[x].department = d /\ S[x].job_level = l /\ S[x].region = r}

\* the candidates of record e of S at the given offset, as the claim states
\* them for a record with an unknown attribute
UnknownAsStated(S, e, offset) ==
    LET l == FillLevel(S[e]) + offset
        q == SeqRange(candidate_ids_for_level(S, S[e].department, l,
                                              S[e].region, S[e].location))
    IN  /\ S[e].department = NullText => q = {}
        /\ (S[e].department # NullText /\ S[e].region = NullText) =>
               q = DepartmentTier(S, S[e].department, l)
        /\ (S[e].department # NullText /\ S[e].region # NullText
                /\ S[e].location = NullText) =>
               q = (IF RegionTier(S, S[e].department, l, S[e].region) # {}
                    THEN RegionTier(S, S[e].department, l, S[e].region)
                    ELSE DepartmentTier(S, S[e].department, l))

\* C28: an unknown attribute matches nothing, not even another unknown one.
\* When a pass is about to run, the candidates of a record with unknown
\* region are all the rows of its department at the target level, whatever
\* their region and location; those of a record with known region and
\* unknown location are the rows of its department and region at that level
\* if there are any, else all the rows of its department at that level; a
\* record with unknown department has none.  After a complete run a record
\* with unknown department has neither manager_id nor supervisor_id
C28_UnknownMatchesNothing ==
    /\ pc \in {"validate", "manager", "supervisor"} =>
           \A e \in DOMAIN db :
               UnknownAsStated(db, e, ManagerOffset) /\ UnknownAsStated(db, e, SupervisorOffset)
    /\ pc = "done" =>
           \A e \in DOMAIN disk :
               raw[e].department = NullText =>
                   disk[e].manager_id = NoId /\ disk[e].supervisor_id = NoId

\* a complete run over a store where a record with unknown department named
\* a manager one level up and a supervisor two levels up, and where a record
\* with unknown region had a row of its location and unknown region one
\* level up and was given another row as manager
C28_Witness ==
    /\ pc = "done"
    /\ \E e \in DOMAIN raw :
           /\ raw[e].department = NullText
           /\ raw[e].manager_id \in DOMAIN raw /\ raw[e].supervisor_id \in DOMAIN raw
           /\ raw[raw[e].manager_id].job_level = raw[e].job_level + 1
           /\ raw[raw[e].supervisor_id].job_level = raw[e].job_level + 2
    /\ \E e \in DOMAIN raw :
           /\ raw[e].region = NullText /\ raw[e].department # NullText
           /\ disk[e].manager_id # NoId
           /\ disk[disk[e].manager_id].region # NullText

(***************************************************************************)
(* C29: a record without job_level.                                        *)
(***************************************************************************)
\* the store has a record with no job_level that names a manager or a
\* supervisor: a row the Validate pass fetches
NullLevelLinked(S) ==
    \E e \in DOMAIN S :
        /\ S[e].job_level = NoId
        /\ S[e].manager_id # NoId \/ S[e].supervisor_id # NoId

\* the rows of a known department shared with e at the given level
DepartmentAtLevel(S, e, level) ==
    {c \in DOMAIN S : /\ S[c].job_level = level
                      /\ Known(S[c].department, S[e].department)}

\* a link of a record without job_level is filled from the rows of its
\* department at the given level, and stays null only when there are none
FilledAsLevelZero(S, e, link, level) ==
    IF DepartmentAtLevel(S, e, level) = {} THEN link = NoId
    ELSE link \in DepartmentAtLevel(S, e, level)

\* C29: in a run that nothing interrupts, a record with null job_level that
\* names a manager or a supervisor stops the run in the Validate pass: its
\* loop never completes, no pass commits and the file keeps the input.  A
\* run that completes gives every record with null job_level a manager at
\* level 1 and a supervisor at level 2 of its department, as for level 0.
C29_NullJobLevel ==
    /\ NullLevelLinked(raw) =>
           /\ pc \in {"main", "validate", "validate_loop", "aborted"}
           /\ ~(pc = "validate_loop" /\ i = Len(rows))
           /\ committed = 0
           /\ disk = raw
    /\ pc = "done" =>
           \A e \in DOMAIN disk :
               raw[e].job_level = NoId =>
                   /\ FilledAsLevelZero(disk, e, disk[e].manager_id, 1)
                   /\ FilledAsLevelZero(disk, e, disk[e].supervisor_id, 2)

\* Validate raised on a record with null job_level and the run is over with
\* nothing committed
C29_Witness ==
    /\ pc = "aborted"
    /\ NullLevelLinked(raw)
    /\ committed = 0
    /\ disk = raw

\* a complete run gave a record with null job_level both leaders
C29_FilledWitness ==
    /\ pc = "done"
    /\ \E e \in DOMAIN disk :
           /\ raw[e].job_level = NoId
           /\ disk[e].manager_id # NoId /\ disk[disk[e].manager_id].job_level = 1
           /\ disk[e].supervisor_id # NoId /\ disk[disk[e].supervisor_id].job_level = 2

(***************************************************************************)
(* C30: the execute-and-repair loop of generate_answer.                    *)
(***************************************************************************)
\* the positions in calls of the invocations of one kind
CallsOf(call) == {k \in DOMAIN calls : calls[k].call = call}

\* the executions that raised
FailedExecutions == {k \in CallsOf("execute") : ~calls[k].ok}

\* every synthesis comes after an execution that returned
SynthesisAfterSuccess ==
    \A k \in CallsOf("synthesis") :
        \E j \in 1..(k - 1) : calls[j].call = "execute" /\ calls[j].ok

\* the counts of the loop for max_retries = n
LoopBounds ==
    /\ Cardinality(CallsOf("execute")) <= max_retries + 1
    /\ Cardinality(CallsOf("repair")) <= max_retries

\* when max_retries + 1 executions have failed there is no synthesis, no
\* further repair or execution is pending, and what is returned is the
\* fallback with the error of the last execution
ExhaustedFallsBack ==
    Cardinality(FailedExecutions) = max_retries + 1 =>
        /\ CallsOf("synthesis") = {}
        /\ apc \in {"exhausted", "returned"}
        /\ apc = "returned" =>
               LET last == CHOOSE k \in FailedExecutions :
                               \A j \in FailedExecutions : j <= k
               IN  /\ response = [text |-> "fallback", error |-> calls[last].out]
                   /\ calls[Len(calls)] =
                          Call("fallback", NoSql, calls[last].out, "fallback", TRUE)
                   /\ last = Len(calls) - 1

C30_Safe == LoopBounds /\ SynthesisAfterSuccess /\ ExhaustedFallsBack

\* C30: for max_retries = n the SQL is executed at most n + 1 times and the
\* repair prompt issued at most n times, answer synthesis is invoked only
\* after an execution that succeeded, n + 1 failed executions end in the
\* fallback built from the last error without a synthesis, and every call
\* returns.
C30_RepairLoopBounded == [](C30_Safe) /\ <>(apc = "returned")

\* every execution failed, every repair was issued, and the call returned
C30_Witness ==
    /\ apc = "returned"
    /\ max_retries = MaxRetries
    /\ Cardinality(FailedExecutions) = max_retries + 1
    /\ Cardinality(CallsOf("repair")) = max_retries
    /\ response.error = last_error /\ last_error # NoError

\* a call that answered after repairs: the last execution returned
C30_AnsweredWitness ==
    /\ apc = "returned"
    /\ Cardinality(CallsOf("execute")) = max_retries + 1
    /\ Cardinality(CallsOf("repair")) = max_retries /\ max_retries > 0
    /\ response.text = "answer"
====
